---- MODULE Spec2Model ----
(***************************************************************************)
(* UserSphere: the retrieval pipeline of the command tool.                 *)
(*   PersistenceManager  (src/src/persistence.ts)  the embedding cache     *)
(*   VectorStore         (src/src/vectorStore.ts)  the index adapter       *)
(*   RAGSystem           (src/unnamed/part_002)    the retrieval engine    *)
(*   EmbeddingService    (src/src/embedding.ts)    the embedding provider  *)
(*   MultiLanguageManager (src/src/embedding.ts)   templates, languages    *)
(*                                                                         *)
(* Specifications.                                                         *)
(*   SpecCache    the persistence manager and the files it reads           *)
(*   SpecStartup  the start of the engine over those files                 *)
(*   Spec         the engine and the callers of query                      *)
(*   SpecLifecycle  the engine started, given templates, disposed, started *)
(*                again                                                    *)
(*   SpecStore    one vector store and its callers                         *)
(*                                                                         *)
(* Conventions.  A text is a sequence of codes: 32 is the space, any other *)
(* code a word or a character of the text.  A vector is a sequence of      *)
(* integers.  Time is counted in days.                                     *)
(* A SHA-256 digest is modelled by its preimage (the digest is taken to be *)
(* collision free).  The id `intent_<n>` of a cached embedding is modelled *)
(* by the number n.                                                        *)
(***************************************************************************)
EXTENDS Integers, Sequences, FiniteSets, TLC

(***************************************************************************)
(* Bounds of the model.                                                    *)
(***************************************************************************)
\* longest list of cached intents handed to saveCachedEmbeddings
MaxItems == 2
\* latest day the clock reaches
MaxNow == 8
\* spaces before, and after, the words of an input
MaxPad == 1
\* number of outside modifications of the cache files, and of failed writes,
\* in one behaviour
MaxTampers == 1
\* most vectors in the native index of an engine in use when it is disposed
MaxVectors == 3
\* most vectors in the native index of a store that is used on its own
MaxStored == 3

(***************************************************************************)
(* Program constants.                                                      *)
(***************************************************************************)
\* maxCacheAge: 7 days (7 * 24 * 60 * 60 * 1000 ms)
MaxCacheAge == 7

(***************************************************************************)
(* Small helpers.                                                          *)
(***************************************************************************)
Range(s) == {s[i] : i \in 1..Len(s)}

Min(a, b) == IF a <= b THEN a ELSE b

\* s without its i-th element
RemoveAt(s, i) == [j \in 1..(Len(s) - 1) |-> IF j < i THEN s[j] ELSE s[j + 1]]

\* F of a value that is computed once
Bind(value, F(_)) == CHOOSE r \in {F(v) : v \in {value}} : TRUE

\* a sequence with every element computed
Computed(s) == SubSeq(s, 1, Len(s))

\* lexicographic order of two sequences of numbers (the order of JS strings
\* by code unit)
RECURSIVE SeqLess(_, _)
SeqLess(a, b) ==
    IF Len(b) = 0 THEN FALSE
    ELSE IF Len(a) = 0 THEN TRUE
    ELSE IF Head(a) # Head(b) THEN Head(a) < Head(b)
    ELSE SeqLess(Tail(a), Tail(b))

\* the decimal digits of a natural number, as `${n}` prints them
RECURSIVE Digits(_)
Digits(n) == IF n < 10 THEN <<n>> ELSE Digits(n \div 10) \o <<n % 10>>

(***************************************************************************)
(* The data the model ranges over.                                         *)
(***************************************************************************)
\* character codes: space, d, p, q, x
CharP == <<112>>
CharD == <<100>>

ModelPaths == {"modelA.gguf", "modelB.gguf"}
Dimensions == {2, 3}
Days == {0, MaxCacheAge, MaxCacheAge + 1}

\* the vector the embedding model computes for a text: the sum of one vector
\* per character (the model is an external, deterministic function of the
\* text; only its results matter here)
CharVector(c) ==
    CASE c = 112 -> <<3, 0>>
      [] c = 100 -> <<0, 3>>
      [] c = 113 -> <<1, -2>>
      [] c = 120 -> <<-1, -1>>
      [] c = 20013 -> <<2, 1>>
      [] c = 110 -> <<-3, 1>>
      [] c = 97 -> <<-3, -3>>
      [] c = 114 -> <<-3, -6>>
      [] c = 28155 -> <<-3, 0>>
      [] c = 21024 -> <<-3, -3>>
      [] OTHER   -> <<0, 0>>

RECURSIVE ModelVector(_)
ModelVector(text) ==
    IF Len(text) = 0 THEN <<0, 0>>
    ELSE LET r == ModelVector(Tail(text))
             c == CharVector(Head(text))
         IN  <<c[1] + r[1], c[2] + r[2]>>

\* a vector of the model brought to `dimension` components
PadTo(v, dimension) == [i \in 1..dimension |-> IF i <= Len(v) THEN v[i] ELSE 0]

(***************************************************************************)
(* PersistenceManager: pure parts.                                         *)
(***************************************************************************)
\* generateHash: the SHA-256 digest of a content, modelled by the content
generateHash(content) == [sha256 |-> content]

\* the string `${ce.id}:${ce.hash}:${ce.timestamp}` of one cached embedding,
\* kept as its three parts
ChecksumEntry(ce) == <<ce.id, ce.hash, ce.timestamp>>

\* the order Array.prototype.sort() puts two such strings in
EntryLess(a, b) ==
    IF a[1] # b[1] THEN a[1] < b[1]
    ELSE IF a[2] # b[2] THEN SeqLess(a[2].sha256, b[2].sha256)
    ELSE SeqLess(Digits(a[3]), Digits(b[3]))

\* .sort(): insertion of each element into the sorted rest
RECURSIVE InsertSorted(_, _)
InsertSorted(e, s) ==
    IF Len(s) = 0 THEN <<e>>
    ELSE IF EntryLess(Head(s), e) THEN <<Head(s)>> \o InsertSorted(e, Tail(s))
    ELSE <<e>> \o s

RECURSIVE SortEntries(_)
SortEntries(s) ==
    IF Len(s) = 0 THEN <<>> ELSE InsertSorted(Head(s), SortEntries(Tail(s)))

\* generateChecksum: map, sort, join, hash
generateChecksum(cachedEmbeddings) ==
    generateHash(SortEntries([i \in 1..Len(cachedEmbeddings) |->
                                 ChecksumEntry(cachedEmbeddings[i])]))

\* createCachedEmbedding(id, text, embedding) at time t
createCachedEmbedding(id, text, embedding, t) ==
    [id |-> id, text |-> text, hasEmbedding |-> TRUE, embedding |-> embedding,
     hash |-> generateHash(text), timestamp |-> t]

\* the metadata saveCachedEmbeddings builds
BuildMetadata(cachedIntents, modelPath, embeddingDimension, t) ==
    [version |-> "1.0.0", createdAt |-> t, updatedAt |-> t,
     modelPath |-> modelPath, embeddingDimension |-> embeddingDimension,
     totalIntents |-> Len(cachedIntents),
     checksum |-> generateChecksum([i \in 1..Len(cachedIntents) |->
                                       cachedIntents[i].embedding])]

NoMetadata ==
    [version |-> "", createdAt |-> 0, updatedAt |-> 0, modelPath |-> "",
     embeddingDimension |-> 0, totalIntents |-> 0,
     checksum |-> generateHash(<<>>)]

\* a file of the cache directory.  kind: "absent", "unreadable" (it exists
\* and cannot be read), "garbage" (not valid JSON), "object" (a JSON object)
AbsentFile ==
    [kind |-> "absent", hasMetadata |-> FALSE, hasEmbeddings |-> FALSE,
     hasIntents |-> FALSE, metadata |-> NoMetadata, embeddings |-> <<>>,
     intents |-> <<>>]

UnreadableFile == [AbsentFile EXCEPT !.kind = "unreadable"]

GarbageFile == [AbsentFile EXCEPT !.kind = "garbage"]

\* the payload JSON.stringify(cacheData) writes
BuildPayload(cachedIntents, modelPath, embeddingDimension, t) ==
    [kind |-> "object", hasMetadata |-> TRUE, hasEmbeddings |-> TRUE,
     hasIntents |-> TRUE,
     metadata |-> BuildMetadata(cachedIntents, modelPath, embeddingDimension, t),
     embeddings |-> [i \in 1..Len(cachedIntents) |-> cachedIntents[i].embedding],
     intents |-> [i \in 1..Len(cachedIntents) |-> cachedIntents[i].intent]]

\* the standalone metadata file JSON.stringify(metadata) writes
BuildMetadataFile(cachedIntents, modelPath, embeddingDimension, t) ==
    [kind |-> "object",
     metadata |-> BuildMetadata(cachedIntents, modelPath, embeddingDimension, t)]

AbsentMetadataFile == [kind |-> "absent", metadata |-> NoMetadata]

\* results of loadCachedEmbeddings
LoadNull == [threw |-> FALSE, isNull |-> TRUE, items |-> <<>>]
LoadThrow == [threw |-> TRUE, isNull |-> FALSE, items |-> <<>>]
LoadItems(items) == [threw |-> FALSE, isNull |-> FALSE, items |-> items]

\* "Validate cache structure"
StructureValid(file) == file.hasMetadata /\ file.hasEmbeddings /\ file.hasIntents

\* "Validate model compatibility": the two mismatch tests
ModelCompatible_NoDimension(metadata, modelPath, embeddingDimension) ==
    metadata.modelPath = modelPath

ModelCompatible(metadata, modelPath, embeddingDimension) ==
    /\ metadata.modelPath = modelPath
    /\ metadata.embeddingDimension = embeddingDimension

\* "Check cache age"
CacheFresh(metadata, t) == ~(t - metadata.updatedAt > MaxCacheAge)

\* "Validate checksum"
ChecksumValid_LengthOnly(metadata, embeddings) ==
    Len(metadata.checksum.sha256) = Len(generateChecksum(embeddings).sha256)

ChecksumValid(metadata, embeddings) ==
    metadata.checksum = generateChecksum(embeddings)

\* "Reconstruct cached intents"
ReconstructCachedIntents_Reversed(embeddings, intents) ==
    [i \in 1..Min(Len(embeddings), Len(intents)) |->
        [intent |-> intents[i],
         embedding |-> embeddings[Min(Len(embeddings), Len(intents)) + 1 - i]]]

ReconstructCachedIntents(embeddings, intents) ==
    [i \in 1..Min(Len(embeddings), Len(intents)) |->
        [intent |-> intents[i], embedding |-> embeddings[i]]]

\* the body of loadCachedEmbeddings' try block
LoadBody(file, modelPath, embeddingDimension, t) ==
    IF file.kind = "absent" THEN LoadNull
    ELSE IF file.kind \in {"unreadable", "garbage"} THEN LoadThrow
    ELSE IF ~StructureValid(file) THEN LoadNull
    ELSE IF ~ModelCompatible(file.metadata, modelPath, embeddingDimension)
         THEN LoadNull
    ELSE IF ~CacheFresh(file.metadata, t) THEN LoadNull
    ELSE IF ~ChecksumValid(file.metadata, file.embeddings) THEN LoadNull
    ELSE LoadItems(ReconstructCachedIntents(file.embeddings, file.intents))

\* loadCachedEmbeddings: the try block, and the catch that returns null
loadCachedEmbeddings_NoCatch(file, modelPath, embeddingDimension, t) ==
    LoadBody(file, modelPath, embeddingDimension, t)

loadCachedEmbeddings(file, modelPath, embeddingDimension, t) ==
    LET r == LoadBody(file, modelPath, embeddingDimension, t)
    IN  IF r.threw THEN LoadNull ELSE r

(***************************************************************************)
(* State.                                                                  *)
(***************************************************************************)
VARIABLES
    embeddingsCacheFile,  \* the payload file on disk
    metadataFile,         \* the standalone metadata file on disk
    now,                  \* Date.now(), in days
    last,                 \* the latest call of the persistence manager
    written,              \* history: the latest payload a save wrote
    pristine,             \* history: no other write since that save
    tampers,              \* outside modifications still allowed
    enableFuzzyMatching,  \* RAGSystem.config.enableFuzzyMatching
    catalog,              \* MultiLanguageManager.templates, in insertion order
    rag,                  \* RAGSystem: isInitialized, detectedLanguage
    service,              \* EmbeddingService: model, context, session, flag
    store,                \* VectorStore: the native index and the intents
    mockDevices,          \* Actions.mockDevices: the names of the devices
    call,                 \* the latest call of the engine and what it did
    tasks                 \* the calls of the engine that have begun, in order

cacheVars == <<embeddingsCacheFile, metadataFile, now, last, written, pristine,
               tampers>>

engineVars == <<tasks, enableFuzzyMatching, catalog, rag, service, store,
                mockDevices, call>>

vars == <<embeddingsCacheFile, metadataFile, now, last, written, pristine,
          tampers, tasks, enableFuzzyMatching, catalog, rag, service, store,
          mockDevices, call>>

\* the devices the program starts with, by name: "iPhone-15" (105 "iPhone",
\* 45 the hyphen, 49 "15")
initialDevices == << <<105, 45, 49>> >>

\* the catalogue of intent templates the manager is constructed with: one
\* phrasing each
multiLangIntentTemplates ==
    << [id |-> "get_user_points", action |-> "getUserPoints", priority |-> 1,
        templates |-> <<CharP>>],
       [id |-> "list_devices", action |-> "listDevices", priority |-> 1,
        templates |-> <<CharD>>] >>

\* the templates of the catalogue, one entry per phrasing, in catalogue order
RECURSIVE FlattenTemplates(_)
FlattenTemplates(templates) ==
    IF Len(templates) = 0 THEN <<>>
    ELSE LET t == Head(templates)
         IN  [i \in 1..Len(t.templates) |->
                 [text |-> t.templates[i], action |-> t.action,
                  priority |-> t.priority]]
             \o FlattenTemplates(Tail(templates))

\* Array.prototype.sort by descending priority: stable
SortByPriority(results) ==
    LET Before(j, i) == \/ results[j].priority > results[i].priority
                        \/ /\ results[j].priority = results[i].priority
                           /\ j < i
        Position(i) == 1 + Cardinality({j \in 1..Len(results) : Before(j, i)})
    IN  [n \in 1..Len(results) |->
            results[CHOOSE i \in 1..Len(results) : Position(i) = n]]

getAllIntentTemplates == SortByPriority(FlattenTemplates(catalog))

\* getAllIntentTemplates of the catalogue the manager is constructed with
initialIntentTemplates ==
    SortByPriority(FlattenTemplates(multiLangIntentTemplates))

\* the action that catalogue names for a phrasing
ActionOf(text) ==
    LET all == initialIntentTemplates
    IN  all[CHOOSE i \in 1..Len(all) : all[i].text = text].action

\* the intents and embeddings a caller hands to save: entry n is the text
\* texts[n], as RAGSystem.computeEmbeddings and initialize build it
Intent(id, text) == [id |-> id, text |-> text, action |-> ActionOf(text)]

CachedIntentsFor(texts, dimension, t) ==
    [i \in 1..Len(texts) |->
        [intent |-> Intent(i - 1, texts[i]),
         embedding |-> createCachedEmbedding(i - 1, texts[i],
                          PadTo(ModelVector(texts[i]), dimension), t)]]

\* the lists of texts saved: n texts, alternately CharP and CharD
AlternatingTexts(n) == [i \in 1..n |-> IF i % 2 = 1 THEN CharP ELSE CharD]

TextLists == {AlternatingTexts(n) : n \in 0..MaxItems}

\* the configuration of the running program: loads ask for it; the cache on
\* disk may have been saved under any
ConfigModelPath == "modelA.gguf"
ConfigDimension == 2

NoCall ==
    [op |-> "none", modelPath |-> "", embeddingDimension |-> 0,
     threw |-> FALSE, isNull |-> FALSE, items |-> <<>>]

NothingWritten ==
    [valid |-> FALSE, items |-> <<>>, modelPath |-> "",
     embeddingDimension |-> 0, at |-> 0]

\* the engine before its construction is of any use
NewRag == [isInitialized |-> FALSE, detectedLanguage |-> "en"]
NewService ==
    [isInitialized |-> FALSE, model |-> FALSE, context |-> FALSE,
     session |-> FALSE]
NewStore == [hasIndex |-> FALSE, vectors |-> <<>>, intents |-> <<>>]

NoIntent == [id |-> -1, text |-> <<>>, action |-> ""]
NoScore == [num |-> 0, den2 |-> 1]

NoEngineCall ==
    [op |-> "none", input |-> <<>>, threw |-> FALSE, error |-> "",
     fault |-> "none", handlerFault |-> "none", usedCache |-> FALSE,
     success |-> FALSE, response |-> [msg |-> "", suggestions |-> <<>>],
     hasMatch |-> FALSE, matchedIntent |-> NoIntent, confidence |-> NoScore,
     dispatched |-> <<>>,
     getEmbeddingCalls |-> 0, providerCalls |-> 0, searches |-> <<>>]

InitCache ==
    /\ embeddingsCacheFile = AbsentFile
    /\ metadataFile = AbsentMetadataFile
    /\ now = 0
    /\ last = NoCall
    /\ written = NothingWritten
    /\ pristine = FALSE
    /\ tampers = MaxTampers
    /\ enableFuzzyMatching = TRUE
    /\ catalog = multiLangIntentTemplates
    /\ rag = NewRag
    /\ service = NewService
    /\ store = NewStore
    /\ mockDevices = initialDevices
    /\ tasks = <<>>
    /\ call = NoEngineCall

(***************************************************************************)
(* PersistenceManager: operations.                                         *)
(***************************************************************************)
\* saveCachedEmbeddings: both writes succeed
SaveOk(cachedIntents, modelPath, embeddingDimension) ==
    /\ UNCHANGED engineVars
    /\ embeddingsCacheFile' =
           BuildPayload(cachedIntents, modelPath, embeddingDimension, now)
    /\ metadataFile' =
           BuildMetadataFile(cachedIntents, modelPath, embeddingDimension, now)
    /\ last' = [NoCall EXCEPT !.op = "save", !.modelPath = modelPath,
                              !.embeddingDimension = embeddingDimension]
    /\ written' = [valid |-> TRUE, items |-> cachedIntents,
                   modelPath |-> modelPath,
                   embeddingDimension |-> embeddingDimension, at |-> now]
    /\ pristine' = TRUE
    /\ UNCHANGED <<now, tampers>>

\* saveCachedEmbeddings: the payload is written, the write of the metadata
\* file fails, the call throws
SaveMetadataWriteFails(cachedIntents, modelPath, embeddingDimension) ==
    /\ UNCHANGED engineVars
    /\ tampers > 0
    /\ tampers' = tampers - 1
    /\ embeddingsCacheFile' =
           BuildPayload(cachedIntents, modelPath, embeddingDimension, now)
    /\ last' = [NoCall EXCEPT !.op = "save", !.modelPath = modelPath,
                              !.embeddingDimension = embeddingDimension,
                              !.threw = TRUE]
    /\ written' = [valid |-> TRUE, items |-> cachedIntents,
                   modelPath |-> modelPath,
                   embeddingDimension |-> embeddingDimension, at |-> now]
    /\ pristine' = TRUE
    /\ UNCHANGED <<metadataFile, now>>

\* saveCachedEmbeddings: the write of the payload fails (the file is left as
\* it was, or truncated), the call throws
SavePayloadWriteFails(cachedIntents, modelPath, embeddingDimension) ==
    /\ UNCHANGED engineVars
    /\ tampers > 0
    /\ tampers' = tampers - 1
    /\ \/ UNCHANGED <<embeddingsCacheFile, written, pristine>>
       \/ /\ embeddingsCacheFile' = GarbageFile
          /\ written' = NothingWritten
          /\ pristine' = FALSE
    /\ last' = [NoCall EXCEPT !.op = "save", !.modelPath = modelPath,
                              !.embeddingDimension = embeddingDimension,
                              !.threw = TRUE]
    /\ UNCHANGED <<metadataFile, now>>

SaveCachedEmbeddings ==
    \E texts \in TextLists, modelPath \in ModelPaths,
       embeddingDimension \in Dimensions :
        LET cachedIntents == CachedIntentsFor(texts, embeddingDimension, now)
        IN  \/ SaveOk(cachedIntents, modelPath, embeddingDimension)
            \/ SaveMetadataWriteFails(cachedIntents, modelPath,
                                      embeddingDimension)
            \/ SavePayloadWriteFails(cachedIntents, modelPath,
                                     embeddingDimension)

LoadCachedEmbeddings ==
    \E modelPath \in {ConfigModelPath}, embeddingDimension \in {ConfigDimension} :
        LET r == loadCachedEmbeddings(embeddingsCacheFile, modelPath,
                                      embeddingDimension, now)
        IN  /\ last' = [op |-> "load", modelPath |-> modelPath,
                        embeddingDimension |-> embeddingDimension,
                        threw |-> r.threw, isNull |-> r.isNull,
                        items |-> r.items]
            /\ UNCHANGED <<embeddingsCacheFile, metadataFile, now, written,
                           pristine, tampers>>
            /\ UNCHANGED engineVars

\* clearCache, had it left the metadata file in place
ClearCache_KeepsMetadata ==
    /\ call' = NoEngineCall
    /\ UNCHANGED <<tasks, enableFuzzyMatching, catalog, rag, service, store,
                   mockDevices>>
    /\ embeddingsCacheFile' = AbsentFile
    /\ last' = [NoCall EXCEPT !.op = "clear"]
    /\ written' = NothingWritten
    /\ pristine' = FALSE
    /\ UNCHANGED <<metadataFile, now, tampers>>

\* clearCache, of the manager and of the engine that delegates to it:
\* unlink every cache file that exists
ClearCache ==
    /\ call' = NoEngineCall
    /\ UNCHANGED <<tasks, enableFuzzyMatching, catalog, rag, service, store,
                   mockDevices>>
    /\ embeddingsCacheFile' = AbsentFile
    /\ metadataFile' = AbsentMetadataFile
    /\ last' = [NoCall EXCEPT !.op = "clear"]
    /\ written' = NothingWritten
    /\ pristine' = FALSE
    /\ UNCHANGED <<now, tampers>>

\* the clock: time passes between two calls
Tick ==
    /\ call' = NoEngineCall
    /\ UNCHANGED <<tasks, enableFuzzyMatching, catalog, rag, service, store,
                   mockDevices>>
    /\ \E t \in Days : t > now /\ t <= MaxNow /\ now' = t
    /\ last' = NoCall
    /\ UNCHANGED <<embeddingsCacheFile, metadataFile, written, pristine,
                   tampers>>

(***************************************************************************)
(* The cache directory is shared with the outside: the files the manager   *)
(* reads may have been changed since it wrote them.                        *)
(***************************************************************************)
Tampered(file) ==
    /\ call' = NoEngineCall
    /\ UNCHANGED <<tasks, enableFuzzyMatching, catalog, rag, service, store,
                   mockDevices>>
    /\ tampers > 0
    /\ tampers' = tampers - 1
    /\ embeddingsCacheFile' = file
    /\ file # embeddingsCacheFile
    /\ last' = NoCall
    /\ pristine' = FALSE
    /\ UNCHANGED <<metadataFile, now, written>>

IsPayload == embeddingsCacheFile.kind = "object"

\* the id, hash or timestamp of one stored embedding is changed
TamperEmbeddingField ==
    /\ IsPayload
    /\ \E i \in 1..Len(embeddingsCacheFile.embeddings) :
         \/ Tampered([embeddingsCacheFile EXCEPT
                         !.embeddings[i].id = (@ + 1) % (MaxItems + 1)])
         \/ Tampered([embeddingsCacheFile EXCEPT
                         !.embeddings[i].hash =
                             IF @ = generateHash(CharP) THEN generateHash(CharD)
                             ELSE generateHash(CharP)])
         \/ Tampered([embeddingsCacheFile EXCEPT
                         !.embeddings[i].timestamp =
                             IF @ = 0 THEN MaxCacheAge ELSE 0])

\* an embedding record is added
TamperAddEmbedding ==
    /\ IsPayload
    /\ Len(embeddingsCacheFile.embeddings) <= MaxItems
    /\ Tampered([embeddingsCacheFile EXCEPT !.embeddings =
           Append(@, createCachedEmbedding(Len(@), CharD, ModelVector(CharD),
                                           now))])

\* an embedding record is removed
TamperRemoveEmbedding ==
    /\ IsPayload
    /\ \E i \in 1..Len(embeddingsCacheFile.embeddings) :
         Tampered([embeddingsCacheFile EXCEPT !.embeddings = RemoveAt(@, i)])

\* two neighbouring embedding records change places
TamperReorderEmbeddings ==
    /\ IsPayload
    /\ \E i \in 1..(Len(embeddingsCacheFile.embeddings) - 1) :
         Tampered([embeddingsCacheFile EXCEPT
                      !.embeddings =
                          [n \in 1..Len(@) |->
                              IF n = i THEN @[i + 1]
                              ELSE IF n = i + 1 THEN @[i] ELSE @[n]]])

\* the last intent is removed
TamperRemoveIntent ==
    /\ IsPayload
    /\ Len(embeddingsCacheFile.intents) > 0
    /\ Tampered([embeddingsCacheFile EXCEPT
                    !.intents = SubSeq(@, 1, Len(@) - 1)])

\* the vector of one stored embedding is replaced by one of another length,
\* or removed
TamperVector ==
    /\ IsPayload
    /\ \E i \in 1..Len(embeddingsCacheFile.embeddings) :
         \/ Tampered([embeddingsCacheFile EXCEPT
                         !.embeddings[i].embedding = <<1>>])
         \/ Tampered([embeddingsCacheFile EXCEPT
                         !.embeddings[i].hasEmbedding = FALSE,
                         !.embeddings[i].embedding = <<>>])

\* a top-level field of the payload is removed
TamperDropField ==
    /\ IsPayload
    /\ \/ Tampered([embeddingsCacheFile EXCEPT !.hasMetadata = FALSE,
                                               !.metadata = NoMetadata])
       \/ Tampered([embeddingsCacheFile EXCEPT !.hasEmbeddings = FALSE,
                                               !.embeddings = <<>>])
       \/ Tampered([embeddingsCacheFile EXCEPT !.hasIntents = FALSE,
                                               !.intents = <<>>])

\* the payload file is overwritten by something that is not JSON, or made
\* unreadable
TamperFile ==
    /\ embeddingsCacheFile.kind # "absent"
    /\ \/ Tampered(GarbageFile)
       \/ Tampered(UnreadableFile)

\* the standalone metadata file is deleted
DeleteMetadataFile ==
    /\ call' = NoEngineCall
    /\ UNCHANGED <<tasks, enableFuzzyMatching, catalog, rag, service, store,
                   mockDevices>>
    /\ tampers > 0
    /\ metadataFile.kind = "object"
    /\ tampers' = tampers - 1
    /\ metadataFile' = AbsentMetadataFile
    /\ last' = NoCall
    /\ UNCHANGED <<embeddingsCacheFile, now, written, pristine>>

NextCache ==
    \/ SaveCachedEmbeddings
    \/ LoadCachedEmbeddings
    \/ ClearCache
    \/ Tick
    \/ TamperEmbeddingField
    \/ TamperAddEmbedding
    \/ TamperRemoveEmbedding
    \/ TamperRemoveIntent
    \/ TamperReorderEmbeddings
    \/ TamperVector
    \/ TamperDropField
    \/ TamperFile
    \/ DeleteMetadataFile

SpecCache == InitCache /\ [][NextCache]_vars

(***************************************************************************)
(* VectorStore (cosine): vectors are normalised when they are added and    *)
(* when they are searched for, and the native index ranks by inner         *)
(* product.  The model keeps each vector as it was given and computes the  *)
(* score of two vectors as their cosine, the fraction num / sqrt(den2).    *)
(***************************************************************************)
RECURSIVE Dot(_, _)
Dot(a, b) ==
    IF Len(a) = 0 \/ Len(b) = 0 THEN 0
    ELSE Head(a) * Head(b) + Dot(Tail(a), Tail(b))

NormSq(a) == Dot(a, a)

Cosine(a, b) == [num |-> Dot(a, b), den2 |-> NormSq(a) * NormSq(b)]

\* score < pct / 100
ScoreBelow(score, pct) ==
    \/ score.num < 0
    \/ score.num * score.num * 100 * 100 < pct * pct * score.den2

ScoreLess(a, b) ==
    IF a.num < 0 /\ b.num >= 0 THEN TRUE
    ELSE IF a.num >= 0 /\ b.num < 0 THEN FALSE
    ELSE IF a.num >= 0
         THEN a.num * a.num * b.den2 < b.num * b.num * a.den2
         ELSE a.num * a.num * b.den2 > b.num * b.num * a.den2

\* IndexFlatIP.search, had it put the later label first among equals
FaissSearch_LaterFirst(vectors, query, k) ==
    LET Ranked(score) ==
            LET Better(j, i) == \/ ScoreLess(score[i], score[j])
                                \/ /\ ~ScoreLess(score[j], score[i])
                                   /\ j > i
                Best(rank) ==
                    [n \in 1..k |->
                        IF n <= Len(vectors)
                        THEN LET i == CHOOSE i \in 1..Len(vectors) : rank[i] = n
                             IN  [label |-> i - 1, distance |-> score[i]]
                        ELSE [label |-> -1,
                              distance |-> [num |-> 0, den2 |-> 1]]]
            IN  Bind(Computed([i \in 1..Len(vectors) |->
                         1 + Cardinality({j \in 1..Len(vectors) : Better(j, i)})]),
                     Best)
    IN  Bind(Computed([i \in 1..Len(vectors) |-> Cosine(query, vectors[i])]),
             Ranked)

\* IndexFlatIP.search: the k best vectors by inner product, best first, the
\* earlier label first among equals; label -1 where the index has no more
FaissSearch(vectors, query, k) ==
    LET Ranked(score) ==
            LET Better(j, i) == \/ ScoreLess(score[i], score[j])
                                \/ /\ ~ScoreLess(score[j], score[i])
                                   /\ j < i
                Best(rank) ==
                    [n \in 1..k |->
                        IF n <= Len(vectors)
                        THEN LET i == CHOOSE i \in 1..Len(vectors) : rank[i] = n
                             IN  [label |-> i - 1, distance |-> score[i]]
                        ELSE [label |-> -1,
                              distance |-> [num |-> 0, den2 |-> 1]]]
            IN  Bind(Computed([i \in 1..Len(vectors) |->
                         1 + Cardinality({j \in 1..Len(vectors) : Better(j, i)})]),
                     Best)
    IN  Bind(Computed([i \in 1..Len(vectors) |-> Cosine(query, vectors[i])]),
             Ranked)

\* VectorStore.initialize
StoreInitialize(st) == [st EXCEPT !.hasIndex = TRUE]

\* the checks of one pair in addIntentsBatch, preprocessEmbedding included
PairRejected(st, dimension, pair) ==
    \/ Len(pair.embedding) # dimension
    \/ \E i \in 1..Len(st.intents) : st.intents[i].id = pair.intent.id
    \/ NormSq(pair.embedding) = 0

\* VectorStore.addIntent: the outcome and the store it leaves
addIntent(st, dimension, intent, embedding) ==
    IF ~st.hasIndex THEN [threw |-> TRUE, store |-> st]
    ELSE IF Len(embedding) # dimension THEN [threw |-> TRUE, store |-> st]
    ELSE IF \E i \in 1..Len(st.intents) : st.intents[i].id = intent.id
    THEN [threw |-> TRUE, store |-> st]
    ELSE IF NormSq(embedding) = 0 THEN [threw |-> TRUE, store |-> st]
    ELSE [threw |-> FALSE,
          store |-> [st EXCEPT !.vectors = Append(@, embedding),
                               !.intents = Append(@, intent)]]

\* addIntentsBatch, had it added each pair as soon as it had validated it
RECURSIVE addIntentsBatch_Eager(_, _, _)
addIntentsBatch_Eager(st, dimension, intentsWithEmbeddings) ==
    IF ~st.hasIndex THEN [threw |-> TRUE, store |-> st]
    ELSE IF Len(intentsWithEmbeddings) = 0 THEN [threw |-> FALSE, store |-> st]
    ELSE LET first == addIntent(st, dimension,
                                Head(intentsWithEmbeddings).intent,
                                Head(intentsWithEmbeddings).embedding)
         IN  IF first.threw THEN first
             ELSE addIntentsBatch_Eager(first.store, dimension,
                                        Tail(intentsWithEmbeddings))

\* VectorStore.addIntentsBatch: the outcome and the store it leaves
addIntentsBatch(st, dimension, intentsWithEmbeddings) ==
    IF ~st.hasIndex THEN [threw |-> TRUE, store |-> st]
    ELSE IF Len(intentsWithEmbeddings) = 0 THEN [threw |-> FALSE, store |-> st]
    ELSE IF \E i \in 1..Len(intentsWithEmbeddings) :
                PairRejected(st, dimension, intentsWithEmbeddings[i])
    THEN [threw |-> TRUE, store |-> st]
    ELSE [threw |-> FALSE,
          store |-> [st EXCEPT
              !.vectors = @ \o [i \in 1..Len(intentsWithEmbeddings) |->
                                   intentsWithEmbeddings[i].embedding],
              !.intents = @ \o [i \in 1..Len(intentsWithEmbeddings) |->
                                   intentsWithEmbeddings[i].intent]]]

\* scoreThreshold !== undefined && score < scoreThreshold
BelowThreshold(score, scoreThreshold) ==
    /\ Len(scoreThreshold) > 0
    /\ ScoreBelow(score, scoreThreshold[1])

\* VectorStore.search; scoreThreshold: <<>> when the caller gives none, else
\* the threshold in hundredths, as a sequence of one
search(st, dimension, queryEmbedding, topK, scoreThreshold) ==
    IF ~st.hasIndex \/ Len(queryEmbedding) # dimension
    THEN [threw |-> TRUE, results |-> <<>>]
    ELSE IF Len(st.intents) = 0 THEN [threw |-> FALSE, results |-> <<>>]
    ELSE IF NormSq(queryEmbedding) = 0 THEN [threw |-> TRUE, results |-> <<>>]
    ELSE LET searchK == Min(topK, Len(st.intents))
             Kept(f) == /\ f.label >= 0
                        /\ f.label < Len(st.intents)
                        /\ ~BelowThreshold(f.distance, scoreThreshold)
             Results(kept) ==
                 [threw |-> FALSE,
                  results |-> [i \in 1..Len(kept) |->
                                  [intent |-> st.intents[kept[i].label + 1],
                                   score |-> kept[i].distance,
                                   distance |-> kept[i].distance]]]
         IN  Bind(SelectSeq(FaissSearch(st.vectors, queryEmbedding, searchK),
                            Kept),
                  Results)

(***************************************************************************)
(* EmbeddingService.                                                       *)
(***************************************************************************)
\* String.prototype.trim
RECURSIVE TrimStart(_)
TrimStart(text) ==
    IF Len(text) > 0 /\ Head(text) = 32 THEN TrimStart(Tail(text)) ELSE text

RECURSIVE TrimEnd(_)
TrimEnd(text) ==
    IF Len(text) > 0 /\ text[Len(text)] = 32
    THEN TrimEnd(SubSeq(text, 1, Len(text) - 1))
    ELSE text

Trim(text) == TrimEnd(TrimStart(text))

\* EmbeddingService.initialize; fault: the step of the provider that fails
ServiceInitialize(svc, fault) ==
    IF svc.isInitialized THEN [threw |-> FALSE, fault |-> "none", service |-> svc]
    ELSE IF fault = "loadModel"
    THEN [threw |-> TRUE, fault |-> fault, service |-> svc]
    ELSE IF fault = "createContext"
    THEN [threw |-> TRUE, fault |-> fault,
          service |-> [svc EXCEPT !.model = TRUE]]
    ELSE [threw |-> FALSE, fault |-> "none",
          service |-> [isInitialized |-> TRUE, model |-> TRUE,
                       context |-> TRUE, session |-> TRUE]]

\* what a call of the provider (context.getEmbeddingFor) does: it returns
\* the vector of the text, it throws, or it returns a vector that has not the
\* length the engine was configured with
ProviderOutcomes == {"vector", "throws", "short"}

\* the fault a call records for an outcome of the provider
FaultOf(provider) ==
    CASE provider = "throws" -> "embed"
      [] provider = "short"  -> "embedLength"
      [] OTHER               -> "none"

\* getEmbedding, had it called the provider a second time after a failure
getEmbedding_Retry(svc, text, provider) ==
    IF Len(Trim(text)) = 0
    THEN [threw |-> TRUE, fault |-> "none", vector |-> <<>>, providerCalls |-> 0]
    ELSE IF ~svc.isInitialized \/ ~svc.context \/ ~svc.session
    THEN [threw |-> TRUE, fault |-> "none", vector |-> <<>>, providerCalls |-> 0]
    ELSE IF provider = "throws"
    THEN [threw |-> TRUE, fault |-> FaultOf(provider), vector |-> <<>>,
          providerCalls |-> 2]
    ELSE IF provider = "short"
    THEN [threw |-> FALSE, fault |-> FaultOf(provider),
          vector |-> <<ModelVector(Trim(text))[1]>>, providerCalls |-> 1]
    ELSE [threw |-> FALSE, fault |-> "none", vector |-> ModelVector(Trim(text)),
          providerCalls |-> 1]

\* EmbeddingService.getEmbedding; providerCalls: calls of getEmbeddingFor
getEmbedding(svc, text, provider) ==
    IF Len(Trim(text)) = 0
    THEN [threw |-> TRUE, fault |-> "none", vector |-> <<>>, providerCalls |-> 0]
    ELSE IF ~svc.isInitialized \/ ~svc.context \/ ~svc.session
    THEN [threw |-> TRUE, fault |-> "none", vector |-> <<>>, providerCalls |-> 0]
    ELSE IF provider = "throws"
    THEN [threw |-> TRUE, fault |-> FaultOf(provider), vector |-> <<>>,
          providerCalls |-> 1]
    ELSE IF provider = "short"
    THEN [threw |-> FALSE, fault |-> FaultOf(provider),
          vector |-> <<ModelVector(Trim(text))[1]>>, providerCalls |-> 1]
    ELSE [threw |-> FALSE, fault |-> "none", vector |-> ModelVector(Trim(text)),
          providerCalls |-> 1]

(***************************************************************************)
(* MultiLanguageManager.detectLanguage.  A pattern is the set of codes     *)
(* whose presence in the text makes it match, and the number of capturing  *)
(* groups of the expression: String.prototype.match without the g flag     *)
(* returns the match followed by one entry per group.  The codes stand for *)
(* 112 "points", 100 "device", 113 "que", 120 "xyz", 20013 an ideograph,   *)
(* 122 a word for which the provider returns the zero vector, 97 "add",    *)
(* 114 "remove", and 28155, 21024, 35774 words in ideographs.              *)
(***************************************************************************)
SupportedLanguages == <<"zh", "en", "ja", "ko", "es", "fr", "de">>

languagePatterns ==
    [zh |-> << [codes |-> {20013, 28155, 21024, 35774}, groups |-> 0],
               [codes |-> {}, groups |-> 0],
               [codes |-> {}, groups |-> 1] >>,
     en |-> << [codes |-> {112, 100, 97, 114}, groups |-> 1],
               [codes |-> {}, groups |-> 1],
               [codes |-> {}, groups |-> 1] >>,
     ja |-> << [codes |-> {20013, 28155, 21024, 35774}, groups |-> 0],
               [codes |-> {}, groups |-> 1] >>,
     ko |-> << [codes |-> {}, groups |-> 0],
               [codes |-> {}, groups |-> 1] >>,
     es |-> << [codes |-> {}, groups |-> 1],
               [codes |-> {}, groups |-> 1] >>,
     fr |-> << [codes |-> {112}, groups |-> 1],
               [codes |-> {113}, groups |-> 1] >>,
     de |-> << [codes |-> {}, groups |-> 1],
               [codes |-> {}, groups |-> 1] >>]

\* the entries String.prototype.match returns for the patterns of a
\* language, summed
RECURSIVE PatternScore(_, _)
PatternScore(patterns, codes) ==
    IF Len(patterns) = 0 THEN 0
    ELSE (IF codes \cap Head(patterns).codes # {}
          THEN 1 + Head(patterns).groups ELSE 0)
         + PatternScore(Tail(patterns), codes)

\* the language with the highest score among the first n, the earlier
\* among equals, "en" when no pattern matches
RECURSIVE BestLanguage(_, _)
BestLanguage(scores, n) ==
    IF n = 0 THEN [language |-> "en", score |-> 0]
    ELSE LET b == BestLanguage(scores, n - 1)
         IN  IF scores[n] > b.score
             THEN [language |-> SupportedLanguages[n], score |-> scores[n]]
             ELSE b

\* the score of each language for a text, in the order of the languages
languageScores(text) ==
    [i \in 1..Len(SupportedLanguages) |->
        PatternScore(languagePatterns[SupportedLanguages[i]], Range(text))]

detectLanguage(text) ==
    BestLanguage(languageScores(text), Len(SupportedLanguages)).language

(***************************************************************************)
(* RAGSystem.  Messages in another script than Latin are written in        *)
(* English behind the code of their language.  A response is its fixed     *)
(* text and the intent texts it quotes.                                    *)
(***************************************************************************)
SimilarityThresholdPct == 65     \* config.similarityThreshold, in hundredths
FuzzyThresholdPct == 10          \* the relaxed threshold, in hundredths
PrimaryTopK == 3
FuzzyTopK == 1
enableMultiLanguage == TRUE

emptyInputResponses ==
    [zh |-> "[zh] Please enter your question or command.",
     en |-> "Please enter your question or command.",
     ja |-> "[ja] Please enter your question or command.",
     ko |-> "[ko] Please enter your question or command.",
     es |-> "Por favor ingrese su pregunta o comando.",
     fr |-> "Veuillez entrer votre question ou commande.",
     de |-> "Bitte geben Sie Ihre Frage oder Ihren Befehl ein."]

errorMessages ==
    [zh |-> "[zh] Error processing query",
     en |-> "Error processing query",
     ja |-> "[ja] Error processing query",
     ko |-> "[ko] Error processing query",
     es |-> "Error al procesar la consulta",
     fr |-> "Erreur lors du traitement de la requete",
     de |-> "Fehler bei der Verarbeitung der Anfrage"]

\* table[language] || table.en
Localized(table, language) ==
    IF language \in DOMAIN table THEN table[language] ELSE table.en

NotUnderstoodMessage ==
    "[zh] Sorry, I did not understand your question. Enter help to see the available functions."

SuggestionMessage ==
    "[zh] I am not sure what you mean. Did you want one of these? Enter help to see all available functions."

\* a RAGResult without a match
Unmatched(message) ==
    [threw |-> FALSE, success |-> FALSE,
     response |-> [msg |-> message, suggestions |-> <<>>],
     hasMatch |-> FALSE, matchedIntent |-> NoIntent, confidence |-> NoScore]

\* what a step of query adds to the record of the call
NoEffort == [getEmbeddingCalls |-> 0, providerCalls |-> 0, searches |-> <<>>]

\* one search of the index, as the record of the call keeps it: what was
\* asked and what came back
SearchCall(queryEmbedding, topK, scoreThreshold, outcome) ==
    [vector |-> queryEmbedding, topK |-> topK, threshold |-> scoreThreshold,
     threw |-> outcome.threw, results |-> outcome.results]

\* Array.prototype.sort by descending score: stable
SortByScore(results) ==
    LET Before(j, i) == \/ ScoreLess(results[i].score, results[j].score)
                        \/ /\ ~ScoreLess(results[j].score, results[i].score)
                           /\ j < i
        Position(i) == 1 + Cardinality({j \in 1..Len(results) : Before(j, i)})
    IN  [n \in 1..Len(results) |->
            results[CHOOSE i \in 1..Len(results) : Position(i) = n]]

(***************************************************************************)
(* RAGSystem.extractDeviceName and the device actions.  A text is a         *)
(* sequence of codes, each a word or a character.  A letter code is a word  *)
(* in Latin letters (97 "add", 114 "remove", 100 "device", 112 "points",    *)
(* 105 "iPhone", 80 "Pixel"), a digit code a number (49 "15"), a code of    *)
(* the CJK block a word in ideographs (28155 "\u6dfb\u52a0", 21024 "\u5220\u9664", 35774      *)
(* "\u8bbe\u5907"); 45 is the hyphen, 95 the underscore, 32 the space, 58 the       *)
(* colon, 34 the quote, 33 the exclamation mark.  A word has two characters *)
(* or more, and the expressions match whole words: a keyword inside a       *)
(* longer word is not modelled.  A code of 65 to 90 is a word with a        *)
(* capital, and the code 32 above it the same word in small letters (75     *)
(* "Kindle", 107 "kindle").                                                 *)
(***************************************************************************)
\* \w
IsWordCode(c) == c \in 48..57 \/ c \in 65..90 \/ c \in 97..122 \/ c = 95

\* [a-zA-Z0-9\u4e00-\u9fa5\-_], the ideographs being the codes 19968 to 40869
IsNameCode(c) == IsWordCode(c) \/ c \in 19968..40869 \/ c = 45

\* String.prototype.length of a text, a word counted as two characters
RECURSIVE TextLength(_)
TextLength(text) ==
    IF Len(text) = 0 THEN 0
    ELSE (IF Head(text) \notin {45, 95} /\ IsNameCode(Head(text))
          THEN 2 ELSE 1)
         + TextLength(Tail(text))

\* the end of the longest run of codes that pass Test, from position i on
\* (i - 1 when the code at i does not pass): what a greedy X* or X+ takes
RunEnd(text, i, Test(_)) ==
    CHOOSE j \in (i - 1)..Len(text) :
        /\ \A k \in i..j : Test(text[k])
        /\ j = Len(text) \/ ~Test(text[j + 1])

\* what String.prototype.match returns: the first and the second group
NoMatch == [found |-> FALSE, m1 |-> <<>>, m2 |-> <<>>]

Matched(m1, m2) == [found |-> TRUE, m1 |-> m1, m2 |-> m2]

\* the match at the leftmost position where the expression matches
FirstMatch(text, At(_)) ==
    LET Leftmost(hits) ==
            IF hits = {} THEN NoMatch
            ELSE At(CHOOSE i \in hits : \A j \in hits : i <= j)
    IN  Bind({i \in 1..Len(text) : At(i).found}, Leftmost)

\* /(?:\u8bbe\u5907|device)\s*[\uff1a:]\s*([a-zA-Z0-9\u4e00-\u9fa5\-_\s]+)/i
DeviceColonPattern(text) ==
    LET At(i) ==
            IF text[i] \notin {35774, 100} THEN NoMatch
            ELSE LET k == RunEnd(text, i + 1, LAMBDA c : c = 32) + 1
                 IN  IF k > Len(text) \/ text[k] \notin {58, 65306} THEN NoMatch
                     ELSE LET e == RunEnd(text, k + 1, LAMBDA c : IsNameCode(c) \/ c = 32)
                          IN  IF e < k + 1 THEN NoMatch
                              ELSE Matched(SubSeq(text, k + 1, e), <<>>)
    IN  FirstMatch(text, At)

\* /(?:\u6dfb\u52a0|\u5220\u9664|\u7ed1\u5b9a|\u89e3\u7ed1|\u79fb\u9664)\s*(?:\u8bbe\u5907)?\s*([a-zA-Z0-9\u4e00-\u9fa5\-_]+)/i
\* when no name follows \u8bbe\u5907, the expression gives \u8bbe\u5907 up to the group
VerbPattern(text) ==
    LET At(i) ==
            IF text[i] \notin {28155, 21024, 32465, 35299, 31227} THEN NoMatch
            ELSE LET a == RunEnd(text, i + 1, LAMBDA c : c = 32) + 1
                     b == IF a <= Len(text) /\ text[a] = 35774
                          THEN RunEnd(text, a + 1, LAMBDA c : c = 32) + 1
                          ELSE a
                     g == IF b <= Len(text) /\ IsNameCode(text[b]) THEN b
                          ELSE a
                 IN  IF g > Len(text) \/ ~IsNameCode(text[g]) THEN NoMatch
                     ELSE Matched(SubSeq(text, g, RunEnd(text, g, IsNameCode)),
                                  <<>>)
    IN  FirstMatch(text, At)

\* /["'"]([a-zA-Z0-9\u4e00-\u9fa5\-_\s]+)["'"]/
QuotePattern(text) ==
    LET At(i) ==
            IF text[i] \notin {34, 39} THEN NoMatch
            ELSE LET e == RunEnd(text, i + 1, LAMBDA c : IsNameCode(c) \/ c = 32)
                 IN  IF e < i + 1 \/ e + 1 > Len(text) THEN NoMatch
                     ELSE IF text[e + 1] \notin {34, 39} THEN NoMatch
                     ELSE Matched(SubSeq(text, i + 1, e), <<>>)
    IN  FirstMatch(text, At)

\* /(iPhone|iPad|MacBook|iMac|Android|Samsung|Huawei)[\-_\s]*([a-zA-Z0-9\u4e00-\u9fa5\-_]*)/i
BrandPattern(text) ==
    LET At(i) ==
            IF text[i] \notin {105} THEN NoMatch
            ELSE LET s == RunEnd(text, i + 1, LAMBDA c : c \in {45, 95, 32}) + 1
                 IN  Matched(<<text[i]>>,
                             SubSeq(text, s, RunEnd(text, s, IsNameCode)))
    IN  FirstMatch(text, At)

\* /\b([a-zA-Z0-9\u4e00-\u9fa5\-_]{2,})\s*(?:\u8bbe\u5907|\u5728\u7ebf|\u79bb\u7ebf|\u72b6\u6001)?$/i
TrailingPattern(text) ==
    LET Boundary(s) ==
            IsWordCode(text[s]) # (s > 1 /\ IsWordCode(text[s - 1]))
        At(s) ==
            IF ~Boundary(s) \/ ~IsNameCode(text[s]) THEN NoMatch
            ELSE LET e == RunEnd(text, s, IsNameCode)
                     t == RunEnd(text, e + 1, LAMBDA c : c = 32) + 1
                 IN  IF TextLength(SubSeq(text, s, e)) < 2 THEN NoMatch
                     ELSE IF t = Len(text) + 1
                             \/ (t = Len(text) /\ text[t] \in {35774, 22312, 31163, 29366})
                     THEN Matched(SubSeq(text, s, e), <<>>)
                     ELSE NoMatch
    IN  FirstMatch(text, At)

\* the name extractDeviceName builds from a match: the first group, and the
\* second behind a hyphen when it is not empty
MatchedName(match) ==
    LET deviceName == Trim(match.m1)
    IN  IF match.m2 # <<>>
        THEN deviceName \o (IF deviceName # <<>> THEN <<45>> ELSE <<>>)
                        \o Trim(match.m2)
        ELSE deviceName

\* RAGSystem.extractDeviceName: the name of the first expression, in their
\* order, that matches with a name of more than one character
extractDeviceName(userInput) ==
    LET First(matches) ==
            LET Named(n) == /\ matches[n].found
                            /\ MatchedName(matches[n]) # <<>>
                            /\ TextLength(MatchedName(matches[n])) > 1
                hits == {n \in 1..Len(matches) : Named(n)}
            IN  IF hits = {} THEN [isNull |-> TRUE, name |-> <<>>]
                ELSE [isNull |-> FALSE,
                      name |-> MatchedName(
                          matches[CHOOSE n \in hits : \A m \in hits : n <= m])]
    IN  Bind(<<DeviceColonPattern(userInput), VerbPattern(userInput),
               QuotePattern(userInput), BrandPattern(userInput),
               TrailingPattern(userInput)>>, First)

\* the texts of the device actions, in English behind the code of their
\* language
AddDevicePrompt ==
    "[zh] Please specify the name of the device to add. For example: add device iPhone-16"
RemoveDevicePrompt ==
    "[zh] Please specify the name of the device to remove. For example: remove device iPhone-15"
NotImplementedMessage == "[zh] The function is not implemented yet."

\* String.prototype.toLowerCase
toLowerCase(text) ==
    [i \in 1..Len(text) |-> IF text[i] \in 65..90 THEN text[i] + 32 ELSE text[i]]

\* String.prototype.includes, word by word
Includes(text, part) ==
    \E i \in 0..(Len(text) - Len(part)) :
        SubSeq(text, i + 1, i + Len(part)) = part

\* addDevice, had it compared the names as they are written
addDevice_CaseSensitive(devices, deviceName) ==
    LET trimmedName == Trim(deviceName)
    IN  IF trimmedName = <<>>
        THEN [msg |-> "[zh] Please provide a valid device name.", devices |-> devices]
        ELSE IF \E i \in 1..Len(devices) : devices[i] = trimmedName
        THEN [msg |-> "[zh] The device already exists.", devices |-> devices]
        ELSE IF \E i \in 1..Len(trimmedName) : ~(IsNameCode(trimmedName[i]) \/ trimmedName[i] = 32)
        THEN [msg |-> "[zh] A device name may hold only letters, digits, Chinese, hyphens and underscores.", devices |-> devices]
        ELSE [msg |-> "[zh] The device was added (status: online).",
              devices |-> Append(devices, trimmedName)]

\* Actions.addDevice: the text it returns and the devices it leaves
addDevice(devices, deviceName) ==
    LET trimmedName == Trim(deviceName)
    IN  IF trimmedName = <<>>
        THEN [msg |-> "[zh] Please provide a valid device name.", devices |-> devices]
        ELSE IF \E i \in 1..Len(devices) :
                    toLowerCase(devices[i]) = toLowerCase(trimmedName)
        THEN [msg |-> "[zh] The device already exists.", devices |-> devices]
        ELSE IF \E i \in 1..Len(trimmedName) : ~(IsNameCode(trimmedName[i]) \/ trimmedName[i] = 32)
        THEN [msg |-> "[zh] A device name may hold only letters, digits, Chinese, hyphens and underscores.", devices |-> devices]
        ELSE [msg |-> "[zh] The device was added (status: online).",
              devices |-> Append(devices, trimmedName)]

\* Actions.removeDevice
removeDevice(devices, deviceName) ==
    LET trimmedName == Trim(deviceName)
        found == {i \in 1..Len(devices) :
                     toLowerCase(devices[i]) = toLowerCase(trimmedName)}
    IN  IF trimmedName = <<>>
        THEN [msg |-> "[zh] Please provide the name of the device to remove.", devices |-> devices]
        ELSE IF found = {}
        THEN IF \E i \in 1..Len(devices) :
                    \/ Includes(toLowerCase(devices[i]), toLowerCase(trimmedName))
                    \/ Includes(toLowerCase(trimmedName), toLowerCase(devices[i]))
             THEN [msg |-> "[zh] No device matches exactly. Did you mean this one? Please use the full device name.", devices |-> devices]
             ELSE [msg |-> "[zh] The device does not exist.", devices |-> devices]
        ELSE [msg |-> "[zh] The device was unbound.",
              devices |-> RemoveAt(devices,
                                   CHOOSE i \in found : \A j \in found : i <= j)]

\* Actions.updateDeviceStatus, the roster being the names of its devices:
\* the device found by its name without case is replaced, at the place its
\* own name has, by a device of the same name
updateDeviceStatus(devices, deviceName, online) ==
    LET trimmedName == Trim(deviceName)
        found == {i \in 1..Len(devices) :
                     toLowerCase(devices[i]) = toLowerCase(trimmedName)}
    IN  IF trimmedName = <<>>
        THEN [msg |-> "[zh] Please provide the device name.", devices |-> devices]
        ELSE IF found = {}
        THEN [msg |-> "[zh] The device does not exist.", devices |-> devices]
        ELSE LET device == devices[CHOOSE i \in found : \A j \in found : i <= j]
                 deviceIndex == CHOOSE i \in 1..Len(devices) :
                                    /\ devices[i] = device
                                    /\ \A j \in 1..(i - 1) : devices[j] # device
             IN  [msg |-> IF online THEN "[zh] The status of the device is now online."
                          ELSE "[zh] The status of the device is now offline.",
                  devices |-> [devices EXCEPT ![deviceIndex] = device]]

\* the actions executeAction calls without a parameter
ParameterlessActions ==
    {"getUserPoints", "getUsername", "getUserAvatar", "getUserMotto",
     "getUserProfile", "listDevices", "listOnlineDevices", "getHelp",
     "getSystemInfo", "exitProgram"}

\* what executeAction leaves when it calls no handler
NotDispatched(message, devices) ==
    [response |-> [msg |-> message, suggestions |-> <<>>],
     devices |-> devices, dispatched |-> <<>>, handlerFault |-> "none"]

\* what executeAction leaves when it calls a handler: the text the handler
\* returns and the devices it leaves, or, when the handler throws, the text
\* of the catch of executeAction
Dispatched(name, argument, handler, message, devices, after) ==
    IF handler = "throws"
    THEN [response |-> [msg |-> "[zh] An error occurred while executing the action", suggestions |-> <<>>],
          devices |-> devices,
          dispatched |-> <<[handler |-> name, argument |-> argument,
                            threw |-> TRUE]>>,
          handlerFault |-> "handler"]
    ELSE [response |-> [msg |-> message, suggestions |-> <<>>],
          devices |-> after,
          dispatched |-> <<[handler |-> name, argument |-> argument,
                            threw |-> FALSE]>>,
          handlerFault |-> "none"]

\* RAGSystem.executeAction: the actions without parameters return a text
\* named by the action; handler: how the handler behaves if it is called
executeAction(intent, userInput, devices, handler) ==
    LET actionName == intent.action
    IN  IF actionName \in ParameterlessActions
        THEN Dispatched(actionName, <<>>, handler, actionName, devices, devices)
        ELSE IF actionName = "checkDeviceStatus"
        THEN Dispatched(actionName, userInput, handler,
                        "checkDeviceStatus", devices, devices)
        ELSE IF actionName = "addDevice"
        THEN LET Add(deviceName) ==
                     IF deviceName.isNull
                     THEN NotDispatched(AddDevicePrompt, devices)
                     ELSE LET added == addDevice(devices, deviceName.name)
                          IN  Dispatched(actionName, deviceName.name, handler,
                                         added.msg, devices, added.devices)
             IN  Bind(extractDeviceName(userInput), Add)
        ELSE IF actionName = "removeDevice"
        THEN LET Remove(deviceName) ==
                     IF deviceName.isNull
                     THEN NotDispatched(RemoveDevicePrompt, devices)
                     ELSE LET removed == removeDevice(devices, deviceName.name)
                          IN  Dispatched(actionName, deviceName.name, handler,
                                         removed.msg, devices, removed.devices)
             IN  Bind(extractDeviceName(userInput), Remove)
        ELSE NotDispatched(NotImplementedMessage, devices)

\* handleNoMatch, had it computed the embedding of the input again
handleNoMatch_Recompute(st, dimension, fuzzy, queryEmbedding) ==
    IF ~fuzzy
    THEN [result |-> Unmatched(NotUnderstoodMessage), effort |-> NoEffort]
    ELSE LET relaxed == search(st, dimension, queryEmbedding, FuzzyTopK,
                               <<FuzzyThresholdPct>>)
             effort == [getEmbeddingCalls |-> 1,
                        providerCalls |-> 1,
                        searches |-> <<SearchCall(queryEmbedding, FuzzyTopK,
                                                  <<FuzzyThresholdPct>>,
                                                  relaxed)>>]
         IN  IF relaxed.threw
             THEN [result |-> [Unmatched("") EXCEPT !.threw = TRUE],
                   effort |-> effort]
             ELSE IF Len(relaxed.results) > 0
             THEN LET sortedResults == SortByScore(relaxed.results)
                      fuzzyMatch == sortedResults[1]
                  IN  [result |->
                          [threw |-> FALSE, success |-> FALSE,
                           response |->
                               [msg |-> SuggestionMessage,
                                suggestions |->
                                    [i \in 1..Len(sortedResults) |->
                                        sortedResults[i].intent.text]],
                           hasMatch |-> TRUE,
                           matchedIntent |-> fuzzyMatch.intent,
                           confidence |-> fuzzyMatch.score],
                       effort |-> effort]
             ELSE [result |-> Unmatched(NotUnderstoodMessage),
                   effort |-> effort]

\* handleNoMatch, had it reported the fuzzy candidate as a match
handleNoMatch_Success(st, dimension, fuzzy, queryEmbedding) ==
    IF ~fuzzy
    THEN [result |-> Unmatched(NotUnderstoodMessage), effort |-> NoEffort]
    ELSE LET relaxed == search(st, dimension, queryEmbedding, FuzzyTopK,
                               <<FuzzyThresholdPct>>)
             effort == [getEmbeddingCalls |-> 0,
                        providerCalls |-> 0,
                        searches |-> <<SearchCall(queryEmbedding, FuzzyTopK,
                                                  <<FuzzyThresholdPct>>,
                                                  relaxed)>>]
         IN  IF relaxed.threw
             THEN [result |-> [Unmatched("") EXCEPT !.threw = TRUE],
                   effort |-> effort]
             ELSE IF Len(relaxed.results) > 0
             THEN LET sortedResults == SortByScore(relaxed.results)
                      fuzzyMatch == sortedResults[1]
                  IN  [result |->
                          [threw |-> FALSE, success |-> TRUE,
                           response |->
                               [msg |-> SuggestionMessage,
                                suggestions |->
                                    [i \in 1..Len(sortedResults) |->
                                        sortedResults[i].intent.text]],
                           hasMatch |-> TRUE,
                           matchedIntent |-> fuzzyMatch.intent,
                           confidence |-> fuzzyMatch.score],
                       effort |-> effort]
             ELSE [result |-> Unmatched(NotUnderstoodMessage),
                   effort |-> effort]

\* handleNoMatch, had its search taken every score
handleNoMatch_Unfiltered(st, dimension, fuzzy, queryEmbedding) ==
    IF ~fuzzy
    THEN [result |-> Unmatched(NotUnderstoodMessage), effort |-> NoEffort]
    ELSE LET relaxed == search(st, dimension, queryEmbedding, FuzzyTopK,
                               <<>>)
             effort == [getEmbeddingCalls |-> 0,
                        providerCalls |-> 0,
                        searches |-> <<SearchCall(queryEmbedding, FuzzyTopK,
                                                  <<>>,
                                                  relaxed)>>]
         IN  IF relaxed.threw
             THEN [result |-> [Unmatched("") EXCEPT !.threw = TRUE],
                   effort |-> effort]
             ELSE IF Len(relaxed.results) > 0
             THEN LET sortedResults == SortByScore(relaxed.results)
                      fuzzyMatch == sortedResults[1]
                  IN  [result |->
                          [threw |-> FALSE, success |-> FALSE,
                           response |->
                               [msg |-> SuggestionMessage,
                                suggestions |->
                                    [i \in 1..Len(sortedResults) |->
                                        sortedResults[i].intent.text]],
                           hasMatch |-> TRUE,
                           matchedIntent |-> fuzzyMatch.intent,
                           confidence |-> fuzzyMatch.score],
                       effort |-> effort]
             ELSE [result |-> Unmatched(NotUnderstoodMessage),
                   effort |-> effort]

\* RAGSystem.handleNoMatch: the result, and the searches it issued
handleNoMatch(st, dimension, fuzzy, queryEmbedding) ==
    IF ~fuzzy
    THEN [result |-> Unmatched(NotUnderstoodMessage), effort |-> NoEffort]
    ELSE LET relaxed == search(st, dimension, queryEmbedding, FuzzyTopK,
                               <<FuzzyThresholdPct>>)
             effort == [getEmbeddingCalls |-> 0,
                        providerCalls |-> 0,
                        searches |-> <<SearchCall(queryEmbedding, FuzzyTopK,
                                                  <<FuzzyThresholdPct>>,
                                                  relaxed)>>]
         IN  IF relaxed.threw
             THEN [result |-> [Unmatched("") EXCEPT !.threw = TRUE],
                   effort |-> effort]
             ELSE IF Len(relaxed.results) > 0
             THEN LET sortedResults == SortByScore(relaxed.results)
                      fuzzyMatch == sortedResults[1]
                  IN  [result |->
                          [threw |-> FALSE, success |-> FALSE,
                           response |->
                               [msg |-> SuggestionMessage,
                                suggestions |->
                                    [i \in 1..Len(sortedResults) |->
                                        sortedResults[i].intent.text]],
                           hasMatch |-> TRUE,
                           matchedIntent |-> fuzzyMatch.intent,
                           confidence |-> fuzzyMatch.score],
                       effort |-> effort]
             ELSE [result |-> Unmatched(NotUnderstoodMessage),
                   effort |-> effort]

\* the test of the trimmed input in query, had it let every input through
IsEmptyInput_Never(trimmedInput) == FALSE

\* !trimmedInput
IsEmptyInput(trimmedInput) == Len(trimmedInput) = 0

AddEffort(a, b) ==
    [getEmbeddingCalls |-> a.getEmbeddingCalls + b.getEmbeddingCalls,
     providerCalls |-> a.providerCalls + b.providerCalls,
     searches |-> a.searches \o b.searches]

\* the catch of query, had it thrown the error again
QueryFailed_Rethrown(language) == [Unmatched("") EXCEPT !.threw = TRUE]

\* the catch of query: a failed result with the error message of the
\* detected language
QueryFailed(language) == Unmatched(Localized(errorMessages, language))

\* the result query takes from the primary search
BestMatch_Last(searchResults) == searchResults[Len(searchResults)]

BestMatch(searchResults) == searchResults[1]

\* query, had it emptied the roster when it ends before executeAction
Undispatched_RosterLost(result, detected, fault, effort, devices) ==
    [result |-> result, detectedLanguage |-> detected, fault |-> fault,
     effort |-> effort, devices |-> <<>>, dispatched |-> <<>>,
     handlerFault |-> "none"]

\* what query leaves when it ends before executeAction
Undispatched(result, detected, fault, effort, devices) ==
    [result |-> result, detectedLanguage |-> detected, fault |-> fault,
     effort |-> effort, devices |-> devices, dispatched |-> <<>>,
     handlerFault |-> "none"]

\* RAGSystem.query on an initialized engine: the result, the language it
\* leaves detected, the calls it made and the devices it leaves; later: what
\* other calls wrote to this.detectedLanguage while this one awaited the
\* provider, in order (the catch reads the field when it runs)
query(st, svc, dimension, fuzzy, language, userInput, provider, devices, handler, later) ==
    LET trimmedInput == Trim(userInput)
        detected == IF enableMultiLanguage THEN detectLanguage(trimmedInput)
                    ELSE language
        failed == QueryFailed(IF later = <<>> THEN detected
                              ELSE later[Len(later)])
        Embedded(e) ==
            LET embedded == [getEmbeddingCalls |-> 1,
                             providerCalls |-> e.providerCalls,
                             searches |-> <<>>]
                Searched(searchResults) ==
                    LET searched == [embedded EXCEPT !.searches =
                                        <<SearchCall(e.vector, PrimaryTopK,
                                                     <<SimilarityThresholdPct>>,
                                                     searchResults)>>]
                        NoMatchHandled(h) ==
                            Undispatched(IF h.result.threw THEN failed
                                         ELSE h.result,
                                         detected, e.fault,
                                         AddEffort(searched, h.effort), devices)
                        bestMatch == BestMatch(searchResults.results)
                        Answered(x) ==
                            [result |->
                                 [threw |-> FALSE, success |-> TRUE,
                                  response |-> x.response,
                                  hasMatch |-> TRUE,
                                  matchedIntent |-> bestMatch.intent,
                                  confidence |-> bestMatch.score],
                             detectedLanguage |-> detected, fault |-> e.fault,
                             effort |-> searched, devices |-> x.devices,
                             dispatched |-> x.dispatched,
                             handlerFault |-> x.handlerFault]
                    IN  IF searchResults.threw
                        THEN Undispatched(failed, detected, e.fault, searched,
                                          devices)
                        ELSE IF Len(searchResults.results) = 0
                        THEN Bind(handleNoMatch(st, dimension, fuzzy, e.vector),
                                  NoMatchHandled)
                        ELSE Bind(executeAction(bestMatch.intent, trimmedInput,
                                                devices, handler),
                                  Answered)
            IN  IF e.threw
                THEN Undispatched(failed, detected, e.fault, embedded, devices)
                ELSE Bind(search(st, dimension, e.vector, PrimaryTopK,
                                 <<SimilarityThresholdPct>>),
                          Searched)
    IN  IF IsEmptyInput(trimmedInput)
        THEN Undispatched(Unmatched(Localized(emptyInputResponses, language)),
                          language, "none", NoEffort, devices)
        ELSE Bind(getEmbedding(svc, trimmedInput, provider), Embedded)

\* RAGSystem.computeEmbeddings: one intent per template of the catalogue,
\* numbered from 0, with the vector the provider computes for its text
computeEmbeddings(svc, providerFails) ==
    LET allTemplates == getAllIntentTemplates
        e(i) == getEmbedding(svc, allTemplates[i].text,
                             IF providerFails THEN "throws" ELSE "vector")
    IN  IF \E i \in 1..Len(allTemplates) : e(i).threw
        THEN [threw |-> TRUE, intentsToAdd |-> <<>>]
        ELSE [threw |-> FALSE,
              intentsToAdd |->
                  [i \in 1..Len(allTemplates) |->
                      [intent |-> [id |-> i - 1,
                                   text |-> allTemplates[i].text,
                                   action |-> allTemplates[i].action],
                       embedding |-> e(i).vector]]]

\* the records the cache gave, as initialize hands them to the store; the
\* spread of a missing vector throws
FromCache(cachedIntents) ==
    IF \E i \in 1..Len(cachedIntents) : ~cachedIntents[i].embedding.hasEmbedding
    THEN [threw |-> TRUE, intentsToAdd |-> <<>>]
    ELSE [threw |-> FALSE,
          intentsToAdd |->
              [i \in 1..Len(cachedIntents) |->
                  [intent |-> cachedIntents[i].intent,
                   embedding |-> cachedIntents[i].embedding.embedding]]]

\* the records initialize hands to saveCachedEmbeddings
ToCache(intentsToAdd, t) ==
    [i \in 1..Len(intentsToAdd) |->
        [intent |-> intentsToAdd[i].intent,
         embedding |-> createCachedEmbedding(i - 1, intentsToAdd[i].intent.text,
                                             intentsToAdd[i].embedding, t)]]

InitFaults == {"none", "loadModel", "createContext", "embed", "writePayload",
               "writePayloadTruncated", "writeMetadata"}

\* the state RAGSystem.initialize starts from, as one record
EngineState ==
    [threw |-> FALSE, fault |-> "none", usedCache |-> FALSE,
     rag |-> rag, service |-> service, store |-> store,
     embeddingsCacheFile |-> embeddingsCacheFile, metadataFile |-> metadataFile,
     last |-> last, written |-> written, pristine |-> pristine]

\* the end of initialize: addIntentsBatch, then the flag
InitializeAdd(o, intentsToAdd) ==
    LET added == addIntentsBatch(o.store, ConfigDimension, intentsToAdd)
    IN  IF added.threw THEN [o EXCEPT !.threw = TRUE]
        ELSE [o EXCEPT !.store = added.store, !.rag.isInitialized = TRUE]

\* initialize after a cache miss: compute, save, add
InitializeCompute(o, fault) ==
    LET computed == computeEmbeddings(o.service, fault = "embed")
        cachedIntents == ToCache(computed.intentsToAdd, now)
        payload == BuildPayload(cachedIntents, ConfigModelPath,
                                ConfigDimension, now)
        saved == [valid |-> TRUE, items |-> cachedIntents,
                  modelPath |-> ConfigModelPath,
                  embeddingDimension |-> ConfigDimension, at |-> now]
        saveCall == [NoCall EXCEPT !.op = "save",
                                   !.modelPath = ConfigModelPath,
                                   !.embeddingDimension = ConfigDimension]
    IN  IF computed.threw THEN [o EXCEPT !.threw = TRUE, !.fault = "embed"]
        ELSE IF Len(computed.intentsToAdd) = 0
        THEN InitializeAdd(o, computed.intentsToAdd)
        ELSE IF fault = "writePayload"
        THEN [o EXCEPT !.threw = TRUE, !.fault = fault,
                       !.last = [saveCall EXCEPT !.threw = TRUE]]
        ELSE IF fault = "writePayloadTruncated"
        THEN [o EXCEPT !.threw = TRUE, !.fault = fault,
                       !.last = [saveCall EXCEPT !.threw = TRUE],
                       !.embeddingsCacheFile = GarbageFile,
                       !.written = NothingWritten, !.pristine = FALSE]
        ELSE IF fault = "writeMetadata"
        THEN [o EXCEPT !.threw = TRUE, !.fault = fault,
                       !.last = [saveCall EXCEPT !.threw = TRUE],
                       !.embeddingsCacheFile = payload,
                       !.written = saved, !.pristine = TRUE]
        ELSE InitializeAdd(
                 [o EXCEPT !.last = saveCall,
                           !.embeddingsCacheFile = payload,
                           !.metadataFile =
                               BuildMetadataFile(cachedIntents, ConfigModelPath,
                                                 ConfigDimension, now),
                           !.written = saved, !.pristine = TRUE],
                 computed.intentsToAdd)

\* the test initialize makes before anything else, had it let every call
\* through
AlreadyInitialized_Never(isInitialized) == FALSE

\* the test initialize makes before anything else
AlreadyInitialized(isInitialized) == isInitialized

\* RAGSystem.initialize: the state it leaves; fault: the step of the
\* environment that fails during the call, if any does; passed: the call
\* made its test of the flag before and resumes behind its first await
initialize(fault, passed) ==
    IF ~passed /\ AlreadyInitialized(rag.isInitialized) THEN EngineState
    ELSE
    LET started == ServiceInitialize(service, fault)
        o1 == [EngineState EXCEPT !.service = started.service]
    IN  IF started.threw
        THEN [o1 EXCEPT !.threw = TRUE, !.fault = started.fault]
        ELSE
        LET r == loadCachedEmbeddings(embeddingsCacheFile, ConfigModelPath,
                                      ConfigDimension, now)
            o2 == [o1 EXCEPT
                      !.store = StoreInitialize(store),
                      !.last = [op |-> "load", modelPath |-> ConfigModelPath,
                                embeddingDimension |-> ConfigDimension,
                                threw |-> r.threw, isNull |-> r.isNull,
                                items |-> r.items]]
        IN  IF r.threw THEN [o2 EXCEPT !.threw = TRUE]
            ELSE IF ~r.isNull /\ Len(r.items) > 0
            THEN LET cached == FromCache(r.items)
                     o3 == [o2 EXCEPT !.usedCache = TRUE]
                 IN  IF cached.threw THEN [o3 EXCEPT !.threw = TRUE]
                     ELSE InitializeAdd(o3, cached.intentsToAdd)
            ELSE InitializeCompute(o2, fault)

\* the errors RAGSystem throws
NotInitializedError == "RAG system not initialized. Call initialize() first."
InitializeError == "Failed to initialize RAG system"

\* the test query makes before anything else
QueryRefused_Never(isInitialized) == FALSE

QueryRefused(isInitialized) == ~isInitialized

\* the steps of the native library that can fail while the service is disposed
DisposeFaults == {"none", "contextDispose", "modelDispose"}

\* EmbeddingService.dispose, had it no catch of its own
ServiceDispose_NoCatch(svc, fault) ==
    LET s1 == [svc EXCEPT !.session = FALSE]
        s2 == [s1 EXCEPT !.context = FALSE]
        s3 == [s2 EXCEPT !.model = FALSE]
    IN  IF svc.context /\ fault = "contextDispose"
        THEN [threw |-> TRUE, fault |-> fault, service |-> s1]
        ELSE IF svc.model /\ fault = "modelDispose"
        THEN [threw |-> TRUE, fault |-> fault, service |-> s2]
        ELSE [threw |-> FALSE, fault |-> "none",
              service |-> [s3 EXCEPT !.isInitialized = FALSE]]

\* EmbeddingService.dispose: the session, the context, the model, then the
\* flag; what a step throws is caught and logged, the steps after it are
\* skipped
ServiceDispose(svc, fault) ==
    LET s1 == [svc EXCEPT !.session = FALSE]
        s2 == [s1 EXCEPT !.context = FALSE]
        s3 == [s2 EXCEPT !.model = FALSE]
    IN  IF svc.context /\ fault = "contextDispose"
        THEN [threw |-> FALSE, fault |-> fault, service |-> s1]
        ELSE IF svc.model /\ fault = "modelDispose"
        THEN [threw |-> FALSE, fault |-> fault, service |-> s2]
        ELSE [threw |-> FALSE, fault |-> "none",
              service |-> [s3 EXCEPT !.isInitialized = FALSE]]

\* VectorStore.clear: the list of intents is emptied, the native index keeps
\* its vectors
clear(st) == [st EXCEPT !.intents = <<>>]

\* RAGSystem.dispose: the state it leaves; what a step throws is caught and
\* logged, the steps after it are skipped
dispose(r, svc, st, fault) ==
    LET disposed == ServiceDispose(svc, fault)
    IN  IF disposed.threw
        THEN [threw |-> FALSE, fault |-> disposed.fault, rag |-> r,
              service |-> disposed.service, store |-> st]
        ELSE [threw |-> FALSE, fault |-> disposed.fault,
              rag |-> [r EXCEPT !.isInitialized = FALSE],
              service |-> disposed.service, store |-> clear(st)]

\* Map.prototype.set on the templates, kept in insertion order: the template
\* takes the place of the one with its id, or the end
addTemplate(templates, template) ==
    IF \E i \in 1..Len(templates) : templates[i].id = template.id
    THEN [i \in 1..Len(templates) |->
             IF templates[i].id = template.id THEN template ELSE templates[i]]
    ELSE Append(templates, template)

\* addIntentTemplate, had it put the phrasings of the template in the index
addIntentTemplate_Indexed(templates, st, template) ==
    [catalog |-> addTemplate(templates, template),
     store |-> [st EXCEPT
         !.vectors = @ \o [i \in 1..Len(template.templates) |->
                              ModelVector(template.templates[i])],
         !.intents = @ \o [i \in 1..Len(template.templates) |->
                              [id |-> Len(st.intents) + i - 1,
                               text |-> template.templates[i],
                               action |-> template.action]]]]

\* RAGSystem.addIntentTemplate: the catalogue and the store it leaves
addIntentTemplate(templates, st, template) ==
    IF enableMultiLanguage
    THEN [catalog |-> addTemplate(templates, template), store |-> st]
    ELSE [catalog |-> templates, store |-> st]

(***************************************************************************)
(* The engine: one RAGSystem over the cache directory, created by          *)
(* createDefaultRAGSystem.  The directory holds nothing, or what an        *)
(* earlier run of the program left there under some configuration.         *)
(***************************************************************************)
\* what the user types: the words of a phrase, between spaces
Phrases == {<<>>, <<112>>, <<113>>, <<120>>, <<20013>>, <<112, 100>>,
            <<112, 32, 113>>, <<122>>}

Spaces(n) == [i \in 1..n |-> 32]

Inputs == {Spaces(before) \o phrase \o Spaces(after) :
              before \in {0, MaxPad}, after \in {0, MaxPad},
              phrase \in Phrases}

Init ==
    /\ \/ /\ embeddingsCacheFile = AbsentFile
          /\ metadataFile = AbsentMetadataFile
          /\ written = NothingWritten
          /\ pristine = FALSE
       \/ \E texts \in TextLists, modelPath \in ModelPaths,
             embeddingDimension \in Dimensions :
            LET cachedIntents == CachedIntentsFor(texts, embeddingDimension, 0)
            IN  /\ embeddingsCacheFile =
                       BuildPayload(cachedIntents, modelPath,
                                    embeddingDimension, 0)
                /\ metadataFile =
                       BuildMetadataFile(cachedIntents, modelPath,
                                         embeddingDimension, 0)
                /\ written = [valid |-> TRUE, items |-> cachedIntents,
                              modelPath |-> modelPath,
                              embeddingDimension |-> embeddingDimension,
                              at |-> 0]
                /\ pristine = TRUE
    /\ now = 0
    /\ last = NoCall
    /\ tampers = MaxTampers
    /\ enableFuzzyMatching \in BOOLEAN
    /\ catalog = multiLangIntentTemplates
    /\ rag = NewRag
    /\ service = NewService
    /\ store = NewStore
    /\ mockDevices = initialDevices
    /\ tasks = <<>>
    /\ call = NoEngineCall

Initialize ==
    \E fault \in InitFaults :
        \E o \in {initialize(fault, FALSE)} :
            /\ o.fault = fault
            /\ rag' = o.rag
            /\ service' = o.service
            /\ store' = o.store
            /\ embeddingsCacheFile' = o.embeddingsCacheFile
            /\ metadataFile' = o.metadataFile
            /\ last' = o.last
            /\ written' = o.written
            /\ pristine' = o.pristine
            /\ call' = [NoEngineCall EXCEPT !.op = "initialize",
                                            !.threw = o.threw,
                                            !.error = IF o.threw
                                                      THEN InitializeError
                                                      ELSE "",
                                            !.fault = o.fault,
                                            !.usedCache = o.usedCache]
            /\ UNCHANGED <<now, tampers, tasks, enableFuzzyMatching, catalog,
                           mockDevices>>

\* query on an engine that is not initialized: throws, whatever the input
QueryNotInitialized ==
    /\ QueryRefused(rag.isInitialized)
    /\ call' = [NoEngineCall EXCEPT !.op = "query", !.threw = TRUE,
                                    !.error = NotInitializedError]
    /\ UNCHANGED <<cacheVars, tasks, enableFuzzyMatching, catalog, rag, service,
                   store, mockDevices>>

\* query, were it to succeed only for an input detected as English
QueryOver_EnglishOnly(inputs, providers, handlers) ==
    /\ ~QueryRefused(rag.isInitialized)
    /\ \E userInput \in inputs, provider \in providers :
       \E handler \in IF provider = "vector" THEN handlers ELSE {"returns"} :
         \E q \in {query(store, service, ConfigDimension, enableFuzzyMatching,
                         rag.detectedLanguage, userInput, provider,
                         mockDevices, handler, <<>>)} :
             /\ q.fault = FaultOf(provider)
             /\ handler = "throws" => q.handlerFault = "handler"
             /\ rag' = [rag EXCEPT !.detectedLanguage = q.detectedLanguage]
             /\ mockDevices' = q.devices
             /\ call' = [op |-> "query", input |-> userInput,
                         threw |-> q.result.threw, error |-> "",
                         fault |-> q.fault,
                         handlerFault |-> q.handlerFault,
                         usedCache |-> FALSE,
                         success |-> q.result.success
                                     /\ q.detectedLanguage = "en",
                         response |-> q.result.response,
                         hasMatch |-> q.result.hasMatch,
                         matchedIntent |-> q.result.matchedIntent,
                         confidence |-> q.result.confidence,
                         dispatched |-> q.dispatched,
                         getEmbeddingCalls |-> q.effort.getEmbeddingCalls,
                         providerCalls |-> q.effort.providerCalls,
                         searches |-> q.effort.searches]
    /\ UNCHANGED <<cacheVars, tasks, enableFuzzyMatching, catalog, service, store>>

\* query with one of the inputs, the provider and the handler behaving in
\* one of the ways (no handler is reached when the provider fails)
QueryOver(inputs, providers, handlers) ==
    /\ ~QueryRefused(rag.isInitialized)
    /\ \E userInput \in inputs, provider \in providers :
       \E handler \in IF provider = "vector" THEN handlers ELSE {"returns"} :
         \E q \in {query(store, service, ConfigDimension, enableFuzzyMatching,
                         rag.detectedLanguage, userInput, provider,
                         mockDevices, handler, <<>>)} :
             /\ q.fault = FaultOf(provider)
             /\ handler = "throws" => q.handlerFault = "handler"
             /\ rag' = [rag EXCEPT !.detectedLanguage = q.detectedLanguage]
             /\ mockDevices' = q.devices
             /\ call' = [op |-> "query", input |-> userInput,
                         threw |-> q.result.threw, error |-> "",
                         fault |-> q.fault,
                         handlerFault |-> q.handlerFault,
                         usedCache |-> FALSE,
                         success |-> q.result.success,
                         response |-> q.result.response,
                         hasMatch |-> q.result.hasMatch,
                         matchedIntent |-> q.result.matchedIntent,
                         confidence |-> q.result.confidence,
                         dispatched |-> q.dispatched,
                         getEmbeddingCalls |-> q.effort.getEmbeddingCalls,
                         providerCalls |-> q.effort.providerCalls,
                         searches |-> q.effort.searches]
    /\ UNCHANGED <<cacheVars, tasks, enableFuzzyMatching, catalog, service, store>>

Query == QueryOver(Inputs, ProviderOutcomes, {"returns"})

\* the engine and the callers of query
Next ==
    \/ Initialize
    \/ QueryNotInitialized
    \/ Query

Spec == Init /\ [][Next]_vars

\* the start of the engine over a cache directory that ages and that is
\* shared with the outside
NextStartup ==
    \/ Initialize
    \/ ClearCache
    \/ Tick
    \/ TamperEmbeddingField
    \/ TamperAddEmbedding
    \/ TamperRemoveEmbedding
    \/ TamperRemoveIntent
    \/ TamperVector
    \/ TamperDropField
    \/ TamperFile
    \/ DeleteMetadataFile

SpecStartup == Init /\ [][NextStartup]_vars

\* the phrasing of a template that the catalogue is not constructed with
CharN == <<110>>

\* the templates a caller adds: a new one, and one that takes the place of
\* "list_devices" with another action and a higher priority
NewTemplates ==
    { [id |-> "get_help", action |-> "getHelp", priority |-> 1,
       templates |-> <<CharN>>],
      [id |-> "list_devices", action |-> "showDevices", priority |-> 2,
       templates |-> <<CharD>>] }

\* what the user types when every phrasing is one of a template
KnownPhrases == {CharP, CharD, CharN}

AddIntentTemplate ==
    \E template \in NewTemplates :
        \E a \in {addIntentTemplate(catalog, store, template)} :
            /\ catalog' = a.catalog
            /\ store' = a.store
            /\ call' = [NoEngineCall EXCEPT !.op = "addIntentTemplate"]
            /\ UNCHANGED <<cacheVars, tasks, enableFuzzyMatching, rag, service,
                           mockDevices>>

\* dispose, as long as the native index holds no more than MaxVectors vectors
\* of an engine that is in use
Dispose ==
    /\ rag.isInitialized => Len(store.vectors) <= MaxVectors
    /\ \E fault \in DisposeFaults :
         \E d \in {dispose(rag, service, store, fault)} :
             /\ d.fault = fault
             /\ rag' = d.rag
             /\ service' = d.service
             /\ store' = d.store
             /\ call' = [NoEngineCall EXCEPT !.op = "dispose",
                                             !.threw = d.threw,
                                             !.fault = d.fault]
             /\ UNCHANGED <<cacheVars, tasks, enableFuzzyMatching, catalog,
                            mockDevices>>

QueryKnown == QueryOver(KnownPhrases, {"vector"}, {"returns"})

\* the life of one engine: started, asked, given templates, disposed, started
\* again
NextLifecycle ==
    \/ Initialize
    \/ QueryNotInitialized
    \/ QueryKnown
    \/ AddIntentTemplate
    \/ ClearCache
    \/ Dispose

SpecLifecycle == Init /\ [][NextLifecycle]_vars

(***************************************************************************)
(* One VectorStore, created by createCosineVectorStore(ConfigDimension),   *)
(* and its callers.  Here `call` is the record of the latest call of the   *)
(* store; no engine is built over it, the other variables stay as they     *)
(* start.                                                                  *)
(***************************************************************************)
\* the intents the callers add
StoreIds == {0, 1}

StoreIntent(id) == [id |-> id, text |-> <<id>>, action |-> "act"]

\* the vectors the callers add: two that the store takes, the zero vector, a
\* vector of another length than the store's
StoreVectors == {<<3, 0>>, <<2, 1>>, <<0, 0>>, <<3>>}

\* the pairs of a batch, and the batches: none, one or two pairs
BatchPairs ==
    {[intent |-> StoreIntent(id), embedding |-> embedding] :
        id \in StoreIds, embedding \in {<<3, 0>>, <<0, 0>>, <<3>>}}

Batches ==
    {<<>>} \cup {<<a>> : a \in BatchPairs}
           \cup {<<a, b>> : a \in BatchPairs, b \in BatchPairs}

\* the arguments of search
QueryVectors == {<<3, 0>>, <<1, 1>>, <<0, 0>>}
TopKs == 1..MaxStored
Thresholds == {<<>>, <<SimilarityThresholdPct>>, <<100>>}

NoStoreCall ==
    [op |-> "none", threw |-> FALSE, intent |-> NoIntent, embedding |-> <<>>,
     batch |-> <<>>, query |-> <<>>, topK |-> 0, threshold |-> <<>>,
     results |-> <<>>]

InitStore ==
    /\ embeddingsCacheFile = AbsentFile
    /\ metadataFile = AbsentMetadataFile
    /\ now = 0
    /\ last = NoCall
    /\ written = NothingWritten
    /\ pristine = FALSE
    /\ tampers = 0
    /\ enableFuzzyMatching = TRUE
    /\ catalog = multiLangIntentTemplates
    /\ rag = NewRag
    /\ service = NewService
    /\ store = NewStore
    /\ mockDevices = initialDevices
    /\ tasks = <<>>
    /\ call = NoStoreCall

storeFrame == <<cacheVars, tasks, enableFuzzyMatching, catalog, rag, service,
                mockDevices>>

InitializeStore ==
    /\ store' = StoreInitialize(store)
    /\ call' = [NoStoreCall EXCEPT !.op = "initialize"]
    /\ UNCHANGED storeFrame

\* addIntent, as long as the native index holds fewer than MaxStored vectors
AddIntent ==
    /\ Len(store.vectors) < MaxStored
    /\ \E id \in StoreIds, embedding \in StoreVectors :
         \E a \in {addIntent(store, ConfigDimension, StoreIntent(id),
                             embedding)} :
             /\ store' = a.store
             /\ call' = [NoStoreCall EXCEPT !.op = "addIntent",
                                            !.threw = a.threw,
                                            !.intent = StoreIntent(id),
                                            !.embedding = embedding]
    /\ UNCHANGED storeFrame

\* addIntentsBatch, as long as the native index has room for the batch
AddIntentsBatch ==
    \E batch \in Batches :
        /\ Len(store.vectors) + Len(batch) <= MaxStored
        /\ \E a \in {addIntentsBatch(store, ConfigDimension, batch)} :
             /\ store' = a.store
             /\ call' = [NoStoreCall EXCEPT !.op = "addIntentsBatch",
                                            !.threw = a.threw,
                                            !.batch = batch]
        /\ UNCHANGED storeFrame

Clear ==
    /\ store' = clear(store)
    /\ call' = [NoStoreCall EXCEPT !.op = "clear"]
    /\ UNCHANGED storeFrame

Search ==
    /\ \E queryEmbedding \in QueryVectors, topK \in TopKs,
          scoreThreshold \in Thresholds :
         \E r \in {search(store, ConfigDimension, queryEmbedding, topK,
                          scoreThreshold)} :
             call' = [NoStoreCall EXCEPT !.op = "search",
                                        !.threw = r.threw,
                                        !.query = queryEmbedding,
                                        !.topK = topK,
                                        !.threshold = scoreThreshold,
                                        !.results = r.results]
    /\ UNCHANGED <<storeFrame, store>>

NextStore ==
    \/ InitializeStore
    \/ AddIntent
    \/ AddIntentsBatch
    \/ Clear
    \/ Search

SpecStore == InitStore /\ [][NextStore]_vars

(***************************************************************************)
(* The engine over the device intents of the catalogue, asked to add and   *)
(* to remove devices.                                                      *)
(***************************************************************************)
\* add_device and remove_device of the catalogue, with their first phrasing
\* in Chinese and in English: "\u6dfb\u52a0\u8bbe\u5907", "add device",
\* "\u5220\u9664\u8bbe\u5907", "remove device"
deviceIntentTemplates ==
    << [id |-> "add_device", action |-> "addDevice", priority |-> 1,
        templates |-> << <<28155, 35774>>, <<97, 32, 100>> >>],
       [id |-> "remove_device", action |-> "removeDevice", priority |-> 1,
        templates |-> << <<21024, 35774>>, <<114, 32, 100>> >>] >>

\* what the user types: "add device", "\u6dfb\u52a0\u8bbe\u5907", the
\* latter with the name "Pixel" after it, "add device: Pixel", the verb
\* "\u6dfb\u52a0" alone, "\u5220\u9664\u8bbe\u5907", the latter with the
\* name "iPhone-15" after it, and "remove iPhone 15"
DispatchInputs ==
    { <<97, 32, 100>>,
      <<28155, 35774>>,
      <<28155, 35774, 32, 80>>,
      <<97, 32, 100, 58, 32, 80>>,
      <<28155>>,
      <<21024, 35774>>,
      <<21024, 35774, 32, 105, 45, 49>>,
      <<114, 32, 105, 32, 49>> }

InitDispatch ==
    /\ embeddingsCacheFile = AbsentFile
    /\ metadataFile = AbsentMetadataFile
    /\ written = NothingWritten
    /\ pristine = FALSE
    /\ now = 0
    /\ last = NoCall
    /\ tampers = MaxTampers
    /\ enableFuzzyMatching \in BOOLEAN
    /\ catalog = deviceIntentTemplates
    /\ rag = NewRag
    /\ service = NewService
    /\ store = NewStore
    /\ mockDevices = initialDevices
    /\ tasks = <<>>
    /\ call = NoEngineCall

\* the engine and the callers of query: the provider computes a vector or
\* throws, and a handler that is called returns or throws
NextDispatch ==
    \/ Initialize
    \/ QueryNotInitialized
    \/ QueryOver(DispatchInputs, {"vector", "throws"}, {"returns", "throws"})

SpecDispatch == InitDispatch /\ [][NextDispatch]_vars

(***************************************************************************)
(* The device roster under the calls of its three writers.                 *)
(***************************************************************************)
\* the names the callers give: "Kindle", "kindle", " Kindle ", "iPhone-15",
\* "iPhone", "!", " "
DeviceNames ==
    {<<75>>, <<107>>, <<32, 75, 32>>, <<105, 45, 49>>, <<105>>, <<33>>, <<32>>}

InitDevices ==
    /\ embeddingsCacheFile = AbsentFile
    /\ metadataFile = AbsentMetadataFile
    /\ now = 0
    /\ last = NoCall
    /\ written = NothingWritten
    /\ pristine = FALSE
    /\ tampers = 0
    /\ enableFuzzyMatching = TRUE
    /\ catalog = multiLangIntentTemplates
    /\ rag = NewRag
    /\ service = NewService
    /\ store = NewStore
    /\ mockDevices = initialDevices
    /\ tasks = <<>>
    /\ call = NoEngineCall

AddDevice ==
    /\ \E deviceName \in DeviceNames :
         \E r \in {addDevice(mockDevices, deviceName)} :
             /\ mockDevices' = r.devices
             /\ call' = [NoEngineCall EXCEPT !.op = "addDevice",
                                             !.input = deviceName,
                                             !.response.msg = r.msg]
    /\ UNCHANGED <<cacheVars, tasks, enableFuzzyMatching, catalog, rag, service, store>>

RemoveDevice ==
    /\ \E deviceName \in DeviceNames :
         \E r \in {removeDevice(mockDevices, deviceName)} :
             /\ mockDevices' = r.devices
             /\ call' = [NoEngineCall EXCEPT !.op = "removeDevice",
                                             !.input = deviceName,
                                             !.response.msg = r.msg]
    /\ UNCHANGED <<cacheVars, tasks, enableFuzzyMatching, catalog, rag, service, store>>

UpdateDeviceStatus ==
    /\ \E deviceName \in DeviceNames, online \in BOOLEAN :
         \E r \in {updateDeviceStatus(mockDevices, deviceName, online)} :
             /\ mockDevices' = r.devices
             /\ call' = [NoEngineCall EXCEPT !.op = "updateDeviceStatus",
                                             !.input = deviceName,
                                             !.response.msg = r.msg]
    /\ UNCHANGED <<cacheVars, tasks, enableFuzzyMatching, catalog, rag, service, store>>

NextDevices ==
    \/ AddDevice
    \/ RemoveDevice
    \/ UpdateDeviceStatus

SpecDevices == InitDevices /\ [][NextDevices]_vars

(***************************************************************************)
(* Calls that overlap.  The program runs on one thread: a call of an async *)
(* method runs until its first await, gives way, and resumes later; in     *)
(* between, other calls may begin or resume.  A task is a call that has    *)
(* begun.  RAGSystem.initialize gives way first at the await of            *)
(* embeddingService.initialize(), behind its test of the flag;             *)
(* RAGSystem.query at the await of getEmbedding, behind the detection of   *)
(* the language.  A call that resumes is followed to its end.  The command *)
(* line hands every line it reads to handleUserInput at once; its words of *)
(* farewell are the codes 101 "exit", 117 "quit", 36864 "\u9000\u51fa" and     *)
(* 20877 "\u518d\u89c1", and 69 is "Exit".                                   *)
(***************************************************************************)
MaxTasks == 3

NoTask ==
    [op |-> "none", input |-> <<>>, overlaps |-> FALSE, done |-> FALSE,
     threw |-> FALSE, fault |-> "none", response |-> ""]

\* the calls that have begun and not returned
InFlight(op) == {i \in 1..Len(tasks) : tasks[i].op = op /\ ~tasks[i].done}

\* a caller calls initialize: the test of the flag, then the first await
InitializeBegin ==
    /\ call.op # "exit"
    /\ Len(tasks) < MaxTasks
    /\ tasks' = Append(tasks,
                       [NoTask EXCEPT
                           !.op = "initialize",
                           !.overlaps = InFlight("initialize") # {},
                           !.done = AlreadyInitialized(rag.isInitialized)])
    /\ UNCHANGED <<cacheVars, enableFuzzyMatching, catalog, rag, service,
                   store, mockDevices, call>>

\* a call of initialize resumes behind its first await
InitializeResume ==
    /\ call.op # "exit"
    /\ \E i \in InFlight("initialize") :
         \E o \in {initialize("none", TRUE)} :
            /\ rag' = o.rag
            /\ service' = o.service
            /\ store' = o.store
            /\ embeddingsCacheFile' = o.embeddingsCacheFile
            /\ metadataFile' = o.metadataFile
            /\ last' = o.last
            /\ written' = o.written
            /\ pristine' = o.pristine
            /\ tasks' = [tasks EXCEPT ![i].done = TRUE, ![i].threw = o.threw]
            /\ call' = [NoEngineCall EXCEPT !.op = "initialize",
                                            !.threw = o.threw,
                                            !.error = IF o.threw
                                                      THEN InitializeError
                                                      ELSE "",
                                            !.usedCache = o.usedCache]
            /\ UNCHANGED <<now, tampers, enableFuzzyMatching, catalog,
                           mockDevices>>

\* the lines the user types
Lines == {<<112>>, <<20013>>, <<32, 100>>, <<32>>, <<69>>}

\* the listener of 'line': handleUserInput until it returns or gives way.
\* An empty line is answered with the prompt, a word of farewell ends the
\* program, any other line begins a query
LineArrives ==
    /\ call.op # "exit"
    /\ \E input \in Lines :
         \E trimmedInput \in {Trim(input)} :
            IF IsEmptyInput(trimmedInput)
            THEN /\ call' = [NoEngineCall EXCEPT !.op = "prompt",
                                                 !.input = input]
                 /\ UNCHANGED <<cacheVars, tasks, enableFuzzyMatching, catalog,
                                rag, service, store, mockDevices>>
            ELSE IF toLowerCase(trimmedInput)
                    \in {<<101>>, <<117>>, <<36864>>, <<20877>>}
            THEN \E d \in {dispose(rag, service, store, "none")} :
                    /\ rag' = d.rag
                    /\ service' = d.service
                    /\ store' = d.store
                    /\ call' = [NoEngineCall EXCEPT !.op = "exit",
                                                    !.input = input]
                    /\ UNCHANGED <<cacheVars, tasks, enableFuzzyMatching,
                                   catalog, mockDevices>>
            ELSE /\ Len(tasks) < MaxTasks
                 /\ tasks' = Append(tasks,
                        [NoTask EXCEPT
                            !.op = "query", !.input = trimmedInput,
                            !.overlaps = InFlight("query") # {},
                            !.done = QueryRefused(rag.isInitialized),
                            !.threw = QueryRefused(rag.isInitialized)])
                 /\ rag' = IF QueryRefused(rag.isInitialized)
                              \/ ~enableMultiLanguage
                           THEN rag
                           ELSE [rag EXCEPT !.detectedLanguage =
                                                detectLanguage(trimmedInput)]
                 /\ UNCHANGED <<cacheVars, enableFuzzyMatching, catalog,
                                service, store, mockDevices, call>>

\* a query resumes behind the await of getEmbedding: the provider has
\* computed a vector or has thrown
QueryResume ==
    /\ call.op # "exit"
    /\ \E i \in InFlight("query"), provider \in {"vector", "throws"} :
         \E q \in {query(store, service, ConfigDimension, enableFuzzyMatching,
                         rag.detectedLanguage, tasks[i].input, provider,
                         mockDevices, "returns", <<rag.detectedLanguage>>)} :
             /\ q.fault = FaultOf(provider)
             /\ mockDevices' = q.devices
             /\ tasks' = [tasks EXCEPT ![i].done = TRUE,
                                       ![i].threw = q.result.threw,
                                       ![i].fault = q.fault,
                                       ![i].response = q.result.response.msg]
             /\ call' = [op |-> "query", input |-> tasks[i].input,
                         threw |-> q.result.threw, error |-> "",
                         fault |-> q.fault,
                         handlerFault |-> q.handlerFault,
                         usedCache |-> FALSE,
                         success |-> q.result.success,
                         response |-> q.result.response,
                         hasMatch |-> q.result.hasMatch,
                         matchedIntent |-> q.result.matchedIntent,
                         confidence |-> q.result.confidence,
                         dispatched |-> q.dispatched,
                         getEmbeddingCalls |-> q.effort.getEmbeddingCalls,
                         providerCalls |-> q.effort.providerCalls,
                         searches |-> q.effort.searches]
    /\ UNCHANGED <<cacheVars, enableFuzzyMatching, catalog, rag, service,
                   store>>

NextOverlap ==
    \/ InitializeBegin
    \/ InitializeResume
    \/ LineArrives
    \/ QueryResume

SpecOverlap == InitCache /\ [][NextOverlap]_vars


(***************************************************************************)
(* Claims about the embedding cache, checked under SpecCache.              *)
(***************************************************************************)
LoadReturned == last.op = "load"

\* the load asked for the model and dimension of the latest save, and that
\* save is not older than the maximum cache age
AskedAsWritten ==
    /\ last.modelPath = written.modelPath
    /\ last.embeddingDimension = written.embeddingDimension

WrittenFresh == now - written.at <= MaxCacheAge

\* how often k occurs in s
Count(k, s) == Cardinality({i \in 1..Len(s) : s[i] = k})

\* two lists of cached embeddings carry the same (id, hash, timestamp)
\* triples, each as often
SameChecksumFields(a, b) ==
    LET ka == [i \in 1..Len(a) |-> <<a[i].id, a[i].hash, a[i].timestamp>>]
        kb == [i \in 1..Len(b) |-> <<b[i].id, b[i].hash, b[i].timestamp>>]
    IN  \A k \in Range(ka) \cup Range(kb) : Count(k, ka) = Count(k, kb)

WrittenEmbeddings == [i \in 1..Len(written.items) |-> written.items[i].embedding]

\* C1: a load that asks for another modelPath or another dimension than the
\* cache on disk was saved with returns null, and no item of that cache.
C1_MismatchYieldsNull ==
    (LoadReturned /\ written.valid /\ ~AskedAsWritten)
        => (last.isNull /\ last.items = <<>>)

C1_Witness ==
    /\ LoadReturned /\ written.valid /\ pristine /\ WrittenFresh
    /\ Len(written.items) = MaxItems
    /\ last.modelPath = written.modelPath
    /\ last.embeddingDimension # written.embeddingDimension
    /\ last.isNull

\* C2: round trip.  A load with the modelPath and dimension of the latest
\* save, within the maximum cache age and with no other write in between,
\* returns the saved (intent, embedding) pairs, as a set.
C2_RoundTrip ==
    (LoadReturned /\ written.valid /\ pristine /\ AskedAsWritten /\ WrittenFresh)
        => (/\ ~last.isNull
            /\ ~last.threw
            /\ Range(last.items) = Range(written.items))

C2_Witness ==
    /\ LoadReturned /\ written.valid /\ pristine /\ AskedAsWritten
    /\ now - written.at = MaxCacheAge
    /\ Len(written.items) = MaxItems
    /\ Range(last.items) = Range(written.items)

\* C3: once the id, hash or timestamp of a stored embedding was changed, or
\* an embedding record added or removed, after a save (the stored checksum
\* being the one that save wrote), the next load returns null.
C3_ChecksumFieldMutationYieldsNull ==
    (/\ LoadReturned /\ written.valid
     /\ embeddingsCacheFile.kind = "object"
     /\ embeddingsCacheFile.hasEmbeddings
     /\ ~SameChecksumFields(embeddingsCacheFile.embeddings, WrittenEmbeddings))
        => last.isNull

C3_Witness ==
    /\ LoadReturned /\ written.valid /\ AskedAsWritten /\ WrittenFresh
    /\ embeddingsCacheFile.kind = "object"
    /\ StructureValid(embeddingsCacheFile)
    /\ Len(embeddingsCacheFile.embeddings) = Len(written.items)
    /\ ~SameChecksumFields(embeddingsCacheFile.embeddings, WrittenEmbeddings)
    /\ last.isNull

\* C4: a load returns null or one pair for every embedding stored in the
\* payload, never fewer.
C4_LoadedWhole ==
    (LoadReturned /\ ~last.isNull)
        => Len(last.items) = Len(embeddingsCacheFile.embeddings)

\* the payload file and the standalone metadata file disagree
FilesDiverge ==
    /\ embeddingsCacheFile.kind = "object"
    /\ embeddingsCacheFile.hasMetadata
    /\ \/ metadataFile.kind = "absent"
       \/ metadataFile.metadata # embeddingsCacheFile.metadata

\* C5: when the payload file and the standalone metadata file disagree, a
\* load returns null.
C5_DivergenceYieldsNull == (LoadReturned /\ FilesDiverge) => last.isNull

\* the payload is none that may be used for the request of the latest load
CacheInvalid ==
    \/ embeddingsCacheFile.kind # "object"
    \/ ~embeddingsCacheFile.hasMetadata
    \/ ~embeddingsCacheFile.hasEmbeddings
    \/ ~embeddingsCacheFile.hasIntents
    \/ embeddingsCacheFile.metadata.modelPath # last.modelPath
    \/ embeddingsCacheFile.metadata.embeddingDimension # last.embeddingDimension
    \/ now - embeddingsCacheFile.metadata.updatedAt > MaxCacheAge
    \/ embeddingsCacheFile.metadata.checksum
           # generateChecksum(embeddingsCacheFile.embeddings)

\* C6: a load never raises; on a payload that is absent, unreadable, not
\* JSON, incomplete, stale, mismatched or of a bad checksum it returns null.
C6_LoadNeverRaises ==
    LoadReturned => (~last.threw /\ (CacheInvalid => last.isNull))

C6_Witness ==
    /\ LoadReturned
    /\ embeddingsCacheFile.kind \in {"garbage", "unreadable"}
    /\ last.isNull
    /\ ~last.threw

(***************************************************************************)
(* Claims about the start of the engine, checked under SpecStartup.        *)
(***************************************************************************)
InitializeReturned == call.op = "initialize"

\* C7: whatever the cache files hold, initialize with healthy providers (no
\* step of the environment fails during the call) completes without error and
\* leaves the engine initialized over a populated index.
C7_BadCacheNeverFailsInitialize ==
    (InitializeReturned /\ call.fault = "none") =>
        /\ ~call.threw
        /\ rag.isInitialized
        /\ Len(store.intents) > 0

(***************************************************************************)
(* Claims about query, checked under Spec.                                 *)
(***************************************************************************)
QueryAnswered == call.op = "query" /\ ~call.threw

IsBlank(text) == \A i \in 1..Len(text) : text[i] = 32

\* the primary search of the call came back without a result
PrimaryEmpty ==
    /\ Len(call.searches) >= 1
    /\ ~call.searches[1].threw
    /\ Len(call.searches[1].results) = 0

\* the call searched a second time, and that search found something
FuzzyFound ==
    /\ PrimaryEmpty
    /\ Len(call.searches) >= 2
    /\ ~call.searches[2].threw
    /\ Len(call.searches[2].results) > 0

\* C8: on an initialized engine, a query whose text is empty or only spaces
\* returns success false with a non-empty message, without a call of the
\* embedding service or of its provider and without a search of the index.
C8_BlankQueryDoesNoWork ==
    (QueryAnswered /\ IsBlank(call.input)) =>
        /\ ~call.success
        /\ call.response.msg # ""
        /\ call.getEmbeddingCalls = 0
        /\ call.providerCalls = 0
        /\ call.searches = <<>>

\* a query of spaces only, answered in the language the query before it was
\* detected to be in
C8_Witness ==
    /\ QueryAnswered
    /\ Len(call.input) > 0
    /\ IsBlank(call.input)
    /\ ~call.success
    /\ rag.detectedLanguage = "zh"
    /\ call.response.msg = emptyInputResponses.zh

\* C9: when the primary search of a query finds nothing and fuzzy matching is
\* enabled, the query searches exactly once more, with the same vector, and
\* computes one embedding in all; if the second search finds nothing either,
\* the result is success false with the not-understood message.
C9_FuzzySearchesOnceMore ==
    (QueryAnswered /\ enableFuzzyMatching /\ PrimaryEmpty) =>
        /\ Len(call.searches) = 2
        /\ call.searches[2].vector = call.searches[1].vector
        /\ call.getEmbeddingCalls = 1
        /\ call.providerCalls = 1
        /\ (Len(call.searches[2].results) = 0 =>
               /\ ~call.success
               /\ ~call.hasMatch
               /\ call.response.msg = NotUnderstoodMessage)

\* both searches of a query found nothing
C9_Witness ==
    /\ QueryAnswered
    /\ enableFuzzyMatching
    /\ PrimaryEmpty
    /\ Len(call.searches) = 2
    /\ Len(call.searches[2].results) = 0
    /\ call.response.msg = NotUnderstoodMessage

\* C10: a query that finds a candidate in the fuzzy search only returns
\* success false, and carries the intent and the score of that candidate, which
\* its response quotes.
C10_FuzzyCandidateIsSuggested ==
    (QueryAnswered /\ FuzzyFound) =>
        LET found == call.searches[2].results
        IN  /\ ~call.success
            /\ call.hasMatch
            /\ \E i \in 1..Len(found) :
                 /\ \A j \in 1..Len(found) :
                        ~ScoreLess(found[i].score, found[j].score)
                 /\ call.matchedIntent = found[i].intent
                 /\ call.confidence = found[i].score
                 /\ found[i].intent.text \in Range(call.response.suggestions)

\* the query "que": below the threshold of the primary search, suggested by
\* the fuzzy one
C10_Witness ==
    /\ QueryAnswered
    /\ FuzzyFound
    /\ Trim(call.input) = <<113>>
    /\ ~call.success
    /\ call.matchedIntent.text = CharP
    /\ ScoreBelow(call.confidence, SimilarityThresholdPct)

\* the call met an exception inside query: the provider threw, or a search of
\* the index did
QueryRaised ==
    \/ call.fault = "embed"
    \/ \E i \in 1..Len(call.searches) : call.searches[i].threw

\* C11: on an initialized engine no exception escapes query; when the
\* provider or a search of the index raises (a query vector of another length
\* than the store's, a zero query vector), query returns success false with
\* the error message of the detected language.
C11_QueryNeverThrows ==
    (call.op = "query" /\ rag.isInitialized) =>
        /\ ~call.threw
        /\ QueryRaised =>
               /\ ~call.success
               /\ ~call.hasMatch
               /\ call.response.msg =
                      Localized(errorMessages, rag.detectedLanguage)
               /\ call.response.msg # ""

\* a query whose vector is the zero vector, over a populated index: the
\* search throws, the query returns the error message
C11_Witness ==
    /\ call.op = "query"
    /\ rag.isInitialized
    /\ Trim(call.input) = <<122>>
    /\ call.fault = "none"
    /\ Len(call.searches) = 1
    /\ call.searches[1].threw
    /\ ~call.threw
    /\ ~call.success
    /\ call.response.msg = errorMessages.en

(***************************************************************************)
(* Claims about the life of an engine, checked under SpecLifecycle.        *)
(***************************************************************************)
\* the engine was disposed after it had been in use: the native index holds
\* vectors, the list of intents is empty
DisposedAfterUse ==
    /\ ~rag.isInitialized
    /\ Len(store.vectors) > 0
    /\ Len(store.intents) = 0

\* C12: a query on an engine that is not initialized (initialize has not
\* completed, or dispose was called since) throws the not-initialized error,
\* and the call computes no embedding, calls no provider and searches no index.
C12_QueryRefusedUnlessInitialized ==
    (call.op = "query" /\ ~rag.isInitialized) =>
        /\ call.threw
        /\ call.error = NotInitializedError
        /\ call.getEmbeddingCalls = 0
        /\ call.providerCalls = 0
        /\ call.searches = <<>>

\* a query on an engine that was in use and then disposed
C12_Witness ==
    /\ call.op = "query"
    /\ DisposedAfterUse
    /\ ~service.isInitialized
    /\ call.threw
    /\ call.error = NotInitializedError

\* the catalogue holds the template "get_help", the index no intent of it
HelpNotIndexed ==
    /\ \E i \in 1..Len(catalog) : catalog[i].id = "get_help"
    /\ \A i \in 1..Len(store.intents) : store.intents[i].text # CharN

\* C13: addIntentTemplate changes the catalogue of templates and nothing
\* else: the vectors of the index and the list of intents stay as they were,
\* and the intent a query made right after it matches is one that was indexed
\* before the call.
C13_AddIntentTemplateLeavesIndex ==
    [][/\ call'.op = "addIntentTemplate" =>
              UNCHANGED <<cacheVars, enableFuzzyMatching, rag, service, store>>
       /\ (call.op = "addIntentTemplate" /\ call'.op = "query"
              /\ call'.hasMatch) =>
              \E i \in 1..Len(store.intents) :
                  store.intents[i] = call'.matchedIntent]_vars

\* a template was added to an engine in use
C13_Witness ==
    /\ call.op = "addIntentTemplate"
    /\ rag.isInitialized
    /\ Len(catalog) = Len(multiLangIntentTemplates) + 1
    /\ HelpNotIndexed
    /\ Len(store.intents) = Len(store.vectors)
    /\ Len(store.intents) > 0

\* the one best result of a search of the index st with the vector of a
\* phrasing, no threshold given
BestFor(st, text) == search(st, ConfigDimension, ModelVector(text), 1, <<>>)

\* every phrasing of the template is in the index st, and the search with its
\* vector returns its intent, with the action of the template, as the best
Matchable(st, template) ==
    \A n \in 1..Len(template.templates) :
        LET text == template.templates[n]
            best == BestFor(st, text)
        IN  /\ \E i \in 1..Len(st.intents) :
                 /\ st.intents[i].text = text
                 /\ st.intents[i].action = template.action
            /\ \E i \in 1..Len(st.vectors) : st.vectors[i] = ModelVector(text)
            /\ ~best.threw
            /\ Len(best.results) > 0
            /\ best.results[1].intent.text = text
            /\ best.results[1].intent.action = template.action

\* C14: an initialize that completes on an engine that was not initialized and
\* that computes the embeddings from the catalogue (the cache was cleared)
\* makes every template added by addIntentTemplate matchable.
C14_ReinitializeIndexesNewTemplates ==
    [][(/\ call'.op = "initialize"
        /\ ~rag.isInitialized
        /\ rag'.isInitialized
        /\ ~call'.usedCache) =>
           \A i \in 1..Len(catalog') :
               catalog'[i] \in NewTemplates => Matchable(store', catalog'[i])]_vars

\* C15: dispose never throws, whatever state the engine is in (never
\* initialized, initialize failed part-way, disposed before) and whatever the
\* native library does; after each call the engine is not initialized, and a
\* call that follows a dispose in which nothing failed changes nothing.
C15_DisposeNeverThrows ==
    [][call'.op = "dispose" =>
          /\ ~call'.threw
          /\ ~rag'.isInitialized
          /\ UNCHANGED <<cacheVars, enableFuzzyMatching, catalog>>
          /\ (call.op = "dispose" /\ call.fault = "none") =>
                 UNCHANGED <<rag, service, store>>]_vars

\* dispose on an engine whose initialize had failed after the model was
\* loaded, the disposal of the model failing too
C15_Witness ==
    /\ call.op = "dispose"
    /\ call.fault = "modelDispose"
    /\ ~call.threw
    /\ service.model
    /\ ~service.isInitialized
    /\ ~rag.isInitialized
    /\ Len(store.vectors) = 0

(***************************************************************************)
(* Claims about the vector store, checked under SpecStore.                 *)
(***************************************************************************)
IdStored(st, id) == \E i \in 1..Len(st.intents) : st.intents[i].id = id

\* C16: addIntent throws when the vector has another length than the store's
\* dimension or when an intent of the same id is stored; when it throws, and
\* when the vector is the zero vector, the store is unchanged; when it
\* succeeds, the intent is the last of the list and its vector has the next
\* label of the native index, which is the number of intents stored before.
C16_AddIntentTakesNextLabel ==
    [][call'.op = "addIntent" =>
          /\ (\/ Len(call'.embedding) # ConfigDimension
              \/ IdStored(store, call'.intent.id)) => call'.threw
          /\ (call'.threw \/ NormSq(call'.embedding) = 0) => store' = store
          /\ ~call'.threw =>
                 /\ store'.intents = Append(store.intents, call'.intent)
                 /\ Len(store'.vectors) = Len(store.vectors) + 1
                 /\ store'.vectors[Len(store'.vectors)] = call'.embedding
                 /\ Len(store'.vectors) - 1 = Len(store.intents)]_vars

\* the pair fails the validation of the store st: a vector of another
\* length, an id that is stored, a vector that cannot be normalised
FailsValidation(st, pair) ==
    \/ Len(pair.embedding) # ConfigDimension
    \/ IdStored(st, pair.intent.id)
    \/ \A i \in 1..Len(pair.embedding) : pair.embedding[i] = 0

\* C17: addIntentsBatch on an initialized store is all or nothing: when a
\* pair of the batch fails validation the call throws and neither the native
\* index nor the list of intents has changed; otherwise the vectors and the
\* intents of all pairs are appended, in the order of the batch.
C17_BatchAllOrNothing ==
    [][(call'.op = "addIntentsBatch" /\ store.hasIndex) =>
          LET batch == call'.batch
          IN  IF \E i \in 1..Len(batch) : FailsValidation(store, batch[i])
              THEN /\ call'.threw
                   /\ store' = store
              ELSE /\ ~call'.threw
                   /\ store'.vectors =
                          store.vectors \o
                              [i \in 1..Len(batch) |-> batch[i].embedding]
                   /\ store'.intents =
                          store.intents \o
                              [i \in 1..Len(batch) |-> batch[i].intent]]_vars

\* a batch of a pair the store takes and a pair with the zero vector: the
\* call threw, the first pair is not in the store
C17_Witness ==
    /\ call.op = "addIntentsBatch"
    /\ store.hasIndex
    /\ call.threw
    /\ Len(call.batch) = 2
    /\ ~FailsValidation(store, call.batch[1])
    /\ call.batch[2].embedding = <<0, 0>>
    /\ Len(store.vectors) > 0

\* C18: in every state of the store, whatever addIntent, addIntentsBatch and
\* clear calls were made, no two stored intents have the same id.
C18_StoredIdsAreDistinct ==
    \A i, j \in 1..Len(store.intents) :
        i # j => store.intents[i].id # store.intents[j].id

SearchReturned == call.op = "search" /\ ~call.threw

SameScore(a, b) == ~ScoreLess(a, b) /\ ~ScoreLess(b, a)

\* the labels the results of the latest search can have come from: one label
\* of the native index per result, whose vector scores as the result does
\* and whose intent is the result's
ResultLabels ==
    {f \in [1..Len(call.results) -> 1..Len(store.vectors)] :
        \A i \in 1..Len(call.results) :
            /\ f[i] <= Len(store.intents)
            /\ store.intents[f[i]] = call.results[i].intent
            /\ Cosine(call.query, store.vectors[f[i]]) = call.results[i].score}

ScoreOfLabel(l) == Cosine(call.query, store.vectors[l])

\* the candidates of the latest search: the labels the native index ranks
\* among the first searchK, the lower label first among equal scores
Candidates ==
    LET searchK == Min(call.topK, Len(store.intents))
        Better(j, l) == \/ ScoreLess(ScoreOfLabel(l), ScoreOfLabel(j))
                        \/ /\ SameScore(ScoreOfLabel(l), ScoreOfLabel(j))
                           /\ j < l
    IN  {l \in 1..Len(store.vectors) :
            Cardinality({j \in 1..Len(store.vectors) : Better(j, l)}) < searchK}

\* the candidate is among the results of the latest search
Returned(l) ==
    /\ l <= Len(store.intents)
    /\ \E i \in 1..Len(call.results) :
         /\ call.results[i].intent = store.intents[l]
         /\ call.results[i].score = ScoreOfLabel(l)

\* C20: when a search is given a threshold, every result has a score that is
\* not below it, and every candidate among the top k whose score is not below
\* it (a score equal to the threshold included) is returned.
C20_ThresholdKeepsAllAtOrAbove ==
    (SearchReturned /\ Len(call.threshold) > 0 /\ Len(store.intents) > 0) =>
        /\ \A i \in 1..Len(call.results) :
               ~ScoreBelow(call.results[i].score, call.threshold[1])
        /\ \A l \in Candidates :
               ~ScoreBelow(ScoreOfLabel(l), call.threshold[1]) => Returned(l)


(***************************************************************************)
(* Claims about the language of a query, checked under Spec.               *)
(***************************************************************************)
\* the languages that share the highest score of a text
TopLanguages(text) ==
    LET scores == languageScores(text)
    IN  {SupportedLanguages[i] : i \in
            {i \in DOMAIN scores : \A j \in DOMAIN scores :
                                       scores[j] <= scores[i]}}

\* C22: the language detected for a query is the one with the strictly
\* highest score; when two or more languages share the highest score, or no
\* pattern matches, it is en.
C22_TiesDetectEnglish ==
    (QueryAnswered /\ ~IsBlank(call.input)) =>
        LET top == TopLanguages(Trim(call.input))
        IN  IF Cardinality(top) = 1
            THEN rag.detectedLanguage \in top
            ELSE rag.detectedLanguage = "en"


\* the query ended without a primary match and without a fuzzy candidate
NotUnderstood ==
    /\ QueryAnswered
    /\ PrimaryEmpty
    /\ \/ Len(call.searches) = 1
       \/ /\ Len(call.searches) = 2
          /\ ~call.searches[2].threw
          /\ Len(call.searches[2].results) = 0

\* the language a text of the engine is written in
WrittenIn(message) ==
    IF message \in {NotUnderstoodMessage, SuggestionMessage} THEN "zh"
    ELSE IF \E l \in DOMAIN errorMessages : errorMessages[l] = message
    THEN CHOOSE l \in DOMAIN errorMessages : errorMessages[l] = message
    ELSE IF \E l \in DOMAIN emptyInputResponses :
                emptyInputResponses[l] = message
    THEN CHOOSE l \in DOMAIN emptyInputResponses :
                emptyInputResponses[l] = message
    ELSE "none"

\* C27: a query that ends with no primary match and no fuzzy candidate, or
\* with fuzzy matching disabled, returns its not-understood message in the
\* language detected for that query.
C27_NotUnderstoodIsLocalized ==
    NotUnderstood => WrittenIn(call.response.msg) = rag.detectedLanguage


\* C26: one query calls the embedding provider at most once and searches
\* the index at most twice; a failed embedding call or a failed search is the
\* last call of the query, which ends as failed; the index and the
\* initialized flag are as they were before the query.
C26_QueryDoesNotRetry ==
    [][call'.op = "query" =>
          /\ call'.getEmbeddingCalls <= 1
          /\ call'.providerCalls <= 1
          /\ Len(call'.searches) <= 2
          /\ call'.fault = "embed" =>
                 /\ ~call'.threw /\ ~call'.success
                 /\ call'.searches = <<>>
          /\ \A i \in 1..Len(call'.searches) :
                 call'.searches[i].threw =>
                     /\ ~call'.threw /\ ~call'.success
                     /\ i = Len(call'.searches)
          /\ store' = store
          /\ service' = service
          /\ rag'.isInitialized = rag.isInitialized]_vars

\* a query whose embedding call failed has ended as failed after one call of
\* the provider, over an index that still holds the catalogue
C26_Witness ==
    /\ call.op = "query"
    /\ call.fault = "embed"
    /\ ~call.success
    /\ call.providerCalls = 1
    /\ rag.isInitialized
    /\ Len(store.intents) > 0


\* C28: initialize on an initialized engine returns without a change of the
\* index or of the cache files; under initialize and query calls the index,
\* once filled, stays as it is, and it holds one vector per intent and no id
\* twice.
C28_IntentsLoadedOnce ==
    [][/\ (rag.isInitialized /\ call'.op = "initialize") =>
              /\ ~call'.threw
              /\ store' = store
              /\ embeddingsCacheFile' = embeddingsCacheFile
              /\ metadataFile' = metadataFile
       /\ Len(store.intents) > 0 => store' = store
       /\ Len(store'.vectors) = Len(store'.intents)
       /\ \A i, j \in 1..Len(store'.intents) :
              i # j => store'.intents[i].id # store'.intents[j].id]_vars

\* initialize has returned on an engine that was initialized before the
\* call: it had answered a query in another language than the initial one
C28_Witness ==
    /\ call.op = "initialize"
    /\ ~call.threw
    /\ rag.detectedLanguage # NewRag.detectedLanguage
    /\ rag.isInitialized
    /\ Len(store.intents) = Len(getAllIntentTemplates)


\* C29: after dispose has returned, no step of the native library having
\* failed, the model, the context and the session of the embedding service
\* are released and the native index holds no vector from before the call.
C29_DisposeReleasesServiceAndIndex ==
    (call.op = "dispose" /\ call.fault = "none") =>
        /\ ~service.model
        /\ ~service.context
        /\ ~service.session
        /\ ~service.isInitialized
        /\ Len(store.vectors) = 0


(***************************************************************************)
(* Claims about clearCache, checked under SpecCache.                       *)
(***************************************************************************)
\* no cache file exists
CacheAbsent ==
    /\ embeddingsCacheFile = AbsentFile
    /\ metadataFile = AbsentMetadataFile

\* C30: clearCache returns without an error whether or not the cache files
\* exist and leaves none of them, so that a second call changes nothing; from
\* then until the next save the files stay absent and every
\* loadCachedEmbeddings returns null.
C30_ClearCacheIsIdempotent ==
    [][/\ last'.op = "clear" => (~last'.threw /\ CacheAbsent')
       /\ (CacheAbsent /\ last'.op # "save") =>
              /\ CacheAbsent'
              /\ last'.op = "load" => (last'.isNull /\ ~last'.threw)]_vars

\* clearCache has returned over a directory whose payload file existed: it
\* had been changed from outside
C30_Witness ==
    /\ last.op = "clear"
    /\ ~last.threw
    /\ CacheAbsent
    /\ tampers < MaxTampers


(***************************************************************************)
(* Claims about the dispatch of a query, checked under SpecDispatch.       *)
(***************************************************************************)
\* the action whose case executeAction took, as a call c shows it: the
\* handler it called or, when it called none, the text it returned
DispatchedBy(c, action) ==
    IF c.dispatched # <<>>
    THEN /\ Len(c.dispatched) = 1
         /\ c.dispatched[1].handler = action
    ELSE \/ action = "addDevice" /\ c.response.msg = AddDevicePrompt
         \/ action = "removeDevice" /\ c.response.msg = RemoveDevicePrompt
         \/ /\ action \notin ParameterlessActions
                          \cup {"checkDeviceStatus", "addDevice", "removeDevice"}
            /\ c.response.msg = NotImplementedMessage

DispatchedTo(action) == DispatchedBy(call, action)

\* C21: a query that returns success true made its primary search with k = 3
\* and the configured threshold; its matchedIntent is a result of that search
\* with the highest score, its confidence is that score and is at or above
\* the threshold, and the action dispatched is the action of that intent.
C21_SuccessReportsBestMatch ==
    (QueryAnswered /\ call.success) =>
        /\ Len(call.searches) = 1
        /\ call.searches[1].topK = PrimaryTopK
        /\ call.searches[1].threshold = <<SimilarityThresholdPct>>
        /\ call.hasMatch
        /\ \E i \in 1..Len(call.searches[1].results) :
               /\ call.searches[1].results[i].intent = call.matchedIntent
               /\ call.searches[1].results[i].score = call.confidence
        /\ \A i \in 1..Len(call.searches[1].results) :
               ~ScoreLess(call.confidence, call.searches[1].results[i].score)
        /\ ~ScoreBelow(call.confidence, SimilarityThresholdPct)
        /\ DispatchedTo(call.matchedIntent.action)

\* a query has succeeded whose primary search returned results of different
\* scores, and a handler was called
C21_Witness ==
    /\ QueryAnswered
    /\ call.success
    /\ Len(call.searches[1].results) >= 2
    /\ \E i \in 1..Len(call.searches[1].results) :
           ScoreLess(call.searches[1].results[i].score, call.confidence)
    /\ call.dispatched # <<>>
    /\ call.dispatched[1].handler = call.matchedIntent.action


\* C24: a query whose input is exactly a command without a device name
\* ("add device", or the same in Chinese, \u6dfb\u52a0\u8bbe\u5907) and
\* whose matched action is addDevice or removeDevice returns the prompt for a
\* device name, calls no handler and leaves the device roster as it was.
C24_BareCommandGetsPrompt ==
    [][(/\ call'.op = "query"
        /\ ~call'.threw
        /\ call'.success
        /\ call'.input \in {<<97, 32, 100>>, <<28155, 35774>>}
        /\ call'.matchedIntent.action \in {"addDevice", "removeDevice"})
       => /\ call'.response.msg
                = IF call'.matchedIntent.action = "addDevice"
                  THEN AddDevicePrompt ELSE RemoveDevicePrompt
          /\ call'.dispatched = <<>>
          /\ mockDevices' = mockDevices]_vars

\* C25: a query whose action handler raises returns success false, and the
\* engine is still initialized after it.
C25_HandlerFaultFailsQuery ==
    (QueryAnswered /\ call.handlerFault = "handler") =>
        /\ ~call.success
        /\ rag.isInitialized

\* a call is a query that reached its primary search
ReachedSearch(c) ==
    /\ c.op = "query"
    /\ ~c.threw
    /\ Len(c.searches) >= 1

\* C23: two queries in a row over the same index whose query vectors are
\* equal, whatever language each input is detected as and whatever language
\* the engine had detected before, return the same success flag, the same
\* matchedIntent and the same confidence and dispatch the same action.
C23_LanguageDoesNotDecideMatch ==
    [][(/\ ReachedSearch(call)
        /\ ReachedSearch(call')
        /\ call'.searches[1].vector = call.searches[1].vector
        /\ store' = store
        /\ enableFuzzyMatching' = enableFuzzyMatching)
       => /\ call'.success = call.success
          /\ call'.hasMatch = call.hasMatch
          /\ call'.matchedIntent = call.matchedIntent
          /\ call'.confidence = call.confidence
          /\ call.success
                 => /\ DispatchedBy(call, call.matchedIntent.action)
                    /\ DispatchedBy(call', call.matchedIntent.action)]_vars

\* the query "add device" in Chinese (\u6dfb\u52a0\u8bbe\u5907), detected
\* as Chinese, has succeeded with the query vector of the English phrase,
\* after the English phrase had been answered and had left its device
C23_Witness ==
    /\ ReachedSearch(call)
    /\ call.success
    /\ call.input = <<28155, 35774>>
    /\ rag.detectedLanguage = "zh"
    /\ detectLanguage(<<97, 32, 100>>) = "en"
    /\ call.searches[1].vector = ModelVector(<<97, 32, 100>>)
    /\ \E i \in 1..Len(mockDevices) : mockDevices[i] = <<100>>

\* C32: in every state of the store the native index holds as many vectors
\* as there are stored intents, so that the label of a vector is the
\* position of the intent it was added with.
C32_LabelsAlignWithIntents ==
    Len(store.vectors) = Len(store.intents)

\* C34: every pair a load returns joins an intent with the embedding record
\* of that intent's text.
C34_PairsJoinIntentWithItsEmbedding ==
    (LoadReturned /\ ~last.isNull)
        => \A i \in 1..Len(last.items) :
               last.items[i].intent.text = last.items[i].embedding.text

\* the query returned a suggestion of the fuzzy search
FuzzySuggested ==
    /\ QueryAnswered
    /\ ~call.success
    /\ call.hasMatch

\* C35: the confidence of a fuzzy suggestion is at or above the fuzzy
\* threshold (0.1) and below the similarity threshold of the primary search.
C35_SuggestionIsWeakerThanMatch ==
    FuzzySuggested =>
        /\ ~ScoreBelow(call.confidence, FuzzyThresholdPct)
        /\ ScoreBelow(call.confidence, SimilarityThresholdPct)

\* a suggestion was returned while the index held several intents
C35_Witness ==
    /\ FuzzySuggested
    /\ Len(store.intents) >= 2
    /\ Len(call.searches) = 2

\* C36, as the claim states it: a query calls an action handler if and only
\* if it returns success true, and a query that returns success false leaves
\* the device roster as it was.
C36_HandlerIffSuccess ==
    [][(call'.op = "query" /\ ~call'.threw)
       => /\ (call'.dispatched # <<>>) <=> call'.success
          /\ ~call'.success => mockDevices' = mockDevices]_vars

\* C36, amended: a query that calls an action handler returns success true,
\* and a query that returns success false has called no handler and leaves
\* the device roster as it was.
C36_HandlerOnlyOnSuccess ==
    [][(call'.op = "query" /\ ~call'.threw)
       => /\ call'.dispatched # <<>> => call'.success
          /\ ~call'.success => /\ call'.dispatched = <<>>
                               /\ mockDevices' = mockDevices]_vars

\* a query has returned success false after earlier queries had changed the
\* device roster
C36_Witness ==
    /\ QueryAnswered
    /\ ~call.success
    /\ call.dispatched = <<>>
    /\ mockDevices # initialDevices

\* C39: after dispose has returned, also when the release of the native
\* context or of the model has failed, the embedding service is not
\* initialized.
C39_DisposeLeavesServiceUninitialized ==
    call.op = "dispose" => ~service.isInitialized

(***************************************************************************)
(* Claims about the device roster, checked under SpecDevices.              *)
(***************************************************************************)
\* no two devices have names that are equal without case
UniqueNames ==
    \A i, j \in 1..Len(mockDevices) :
        i # j => toLowerCase(mockDevices[i]) # toLowerCase(mockDevices[j])

\* a call of removeDevice takes out one device whose name is, without case,
\* the name it was given, or leaves the roster as it was when there is none
RemovesExactMatchOnly ==
    call'.op = "removeDevice" =>
        LET hits == {i \in 1..Len(mockDevices) :
                        toLowerCase(mockDevices[i])
                            = toLowerCase(Trim(call'.input))}
        IN  IF hits = {} THEN mockDevices' = mockDevices
            ELSE \E i \in hits : mockDevices' = RemoveAt(mockDevices, i)

\* C40: the names of the roster stay unique without case under addDevice,
\* removeDevice and updateDeviceStatus, and removeDevice removes a device
\* only when its name matches without case.
C40_DeviceNamesStayUnique ==
    /\ []UniqueNames
    /\ [][RemovesExactMatchOnly]_vars

\* addDevice has refused a name that a device of the roster has in another
\* case, after the first device of the roster had been removed
C40_Witness ==
    /\ call.op = "addDevice"
    /\ \E i \in 1..Len(mockDevices) :
           /\ mockDevices[i] # Trim(call.input)
           /\ toLowerCase(mockDevices[i]) = toLowerCase(Trim(call.input))
    /\ \A i \in 1..Len(mockDevices) : mockDevices[i] # initialDevices[1]

(***************************************************************************)
(* Claims about the cache and the catalogue, checked under SpecLifecycle.  *)
(***************************************************************************)
\* the (text, action) pairs of a list of intents or of templates
PairsOf(intents) ==
    {<<intents[i].text, intents[i].action>> : i \in 1..Len(intents)}

\* C33: an initialize that takes its intents from a cache saved for another
\* catalogue than the present one (same modelPath and dimension) leaves in
\* the index the (text, action) pairs of the present catalogue.
C33_CacheNotServedForOtherCatalog ==
    (/\ call.op = "initialize"
     /\ ~call.threw
     /\ call.usedCache
     /\ rag.isInitialized
     /\ written.valid
     /\ PairsOf([i \in 1..Len(written.items) |-> written.items[i].intent])
            # PairsOf(getAllIntentTemplates))
        => PairsOf(store.intents) = PairsOf(getAllIntentTemplates)


(***************************************************************************)
(* Claims about calls that overlap, checked under SpecOverlap.             *)
(***************************************************************************)
\* C31: at most one query is in flight: the command line does not call
\* rag.query for a new line while the query of an earlier line has not
\* returned, whenever the lines come
C31_OneQueryInFlight == Cardinality(InFlight("query")) <= 1


\* C37: when initialize is called while an earlier call of it is suspended
\* at an await, both calls complete without an error, and the index then
\* holds every intent of the catalogue once
C37_OverlappingInitializeIsSafe ==
    (/\ \E i \in 1..Len(tasks) :
            tasks[i].op = "initialize" /\ tasks[i].overlaps
     /\ InFlight("initialize") = {}
     /\ call.op # "exit")
    => /\ \A i \in 1..Len(tasks) :
              tasks[i].op = "initialize" => ~tasks[i].threw
       /\ Len(store.vectors) = Len(initialIntentTemplates)
       /\ Len(store.intents) = Len(initialIntentTemplates)
       /\ \A n \in 1..Len(store.intents) :
              store.intents[n].text = initialIntentTemplates[n].text


\* C38: the error message of a query is in the language detected from the
\* text of that query, also when another query detected its language while
\* the first awaited the provider
C38_MessageInLanguageOfOwnText ==
    \A i \in 1..Len(tasks) :
        (tasks[i].op = "query" /\ tasks[i].done /\ tasks[i].fault = "embed")
        => tasks[i].response =
               Localized(errorMessages, detectLanguage(tasks[i].input))

====
